---------------------------- MODULE Spec2Model ----------------------------
(***************************************************************************)
(* Model of the skill-issues event store (src/src/skill_issues/issues/     *)
(* store.py): the append-only JSONL logs, the merge of the per-namespace   *)
(* files into one timestamp-ordered stream (_load_all_events) and the      *)
(* replay of that stream into the issue map (load_issues).                 *)
(*                                                                         *)
(* A JSON record is a TLA+ record; a key the record does not carry is a    *)
(* key outside its DOMAIN, so Python's  "k" in event  is                   *)
(* "k" \in DOMAIN event  and  event.get("k", d)  is  Get(event, "k", d).   *)
(* Timestamps are naturals: the ISO-8601 strings of get_timestamp have a   *)
(* fixed width, so their lexicographic order is the order of the instants. *)
(***************************************************************************)
EXTENDS Integers, Sequences, FiniteSets, TLC

VARIABLES
    issues,      \* load_issues: the dict  issues  being built / returned
    replayed,    \* load_issues: the events of the ordered stream iterated so far
    files,       \* .issues/: file name -> the lines of the file, in order
    glob_order,  \* the order in which ISSUES_DIR.glob lists the namespace files
    all_events,  \* _load_all_events: the list it returned to the latest load_issues
    clock,       \* the wall clock that get_timestamp reads
    user,        \* the prefix get_user_prefix resolves for the current user
    loads,       \* clock and user of the first and of the latest load_issues
                 \* since the last write
    prefix_arg,  \* next_id: the argument  prefix
    new_id,      \* next_id: the ID it returned
    sessions,    \* next_session_id: the list of sessions it is given
    config,      \* get_user_prefix: the environment variable and the git config values
    include_closed,  \* generate_ascii_diagram: the argument  include_closed
    ready,       \* filter_ready: whether it was called, and the dict it returned
    depths,      \* generate_ascii_diagram: the dict  depths
    remaining,   \* generate_ascii_diagram: the set  remaining
    depth,       \* generate_ascii_diagram: the counter  depth
    max_iterations,  \* generate_ascii_diagram: the budget  max_iterations
    pc,          \* generate_ascii_diagram: where the function is
    mermaid,     \* generate_mermaid_diagram: whether it was called, its edges and styles
    outcome,     \* the latest write operation: its arguments and how it ended
    calls,       \* the number of write operations invoked so far
    creating,    \* create_issue of each concurrent writer: where it is, its  new_id
    content,     \* append_event: the text of the user's events file
    decisions,   \* adr: the decisions directory, file name to content
    adr,         \* adr: the calls so far, the latest call and what it returned
    project,     \* migration: the events and sessions files, git blame of their lines
    migrator     \* migration: the Migrator object and where run is

storeVars == <<issues, replayed, files, glob_order, all_events, clock, user, loads>>

allocVars == <<prefix_arg, new_id, sessions, config>>

graphVars == <<include_closed, ready, depths, remaining, depth, max_iterations, pc,
               mermaid>>

writeVars == <<outcome, calls, creating>>

adrVars == <<decisions, adr>>

migrateVars == <<project, migrator>>

textVars == <<content, adrVars, migrateVars>>

beyondStore == <<allocVars, graphVars, writeVars, textVars>>

vars == <<storeVars, allocVars, graphVars, writeVars, textVars>>

---------------------------------------------------------------------------
(* Bounds of the model.                                                    *)

MaxEvents == 3      \* length of the replayed stream
MaxTs == 2          \* timestamps and clock readings are 1..MaxTs
MaxLines == 3       \* lines in all the log files together, when merging
MaxReloadLines == 2 \* lines in all the log files together, when loading again
MaxKeys == 2        \* keys of the dict that next_id is given
MaxDigits == 3      \* digits of the number of an ID in that dict
MaxDeps == 2        \* dependencies of one issue of a dependency graph
MaxWrites == 1      \* write operations invoked
MaxText == 3        \* characters of an events file before an append
MaxValue == 2       \* characters of the string an appended event carries
MaxReadLines == 3   \* lines of all log files together when a line can be damaged
MaxEnvChars == 5    \* characters of the value of SKILL_ISSUES_PREFIX
MaxSessions == 2    \* sessions of the list that next_session_id is given
MaxAdrCalls == 4    \* calls of create_draft and accept_draft

---------------------------------------------------------------------------
(* Records and dictionaries.                                               *)

NoRecord == [x \in {} |-> x]

AllocIdle == prefix_arg = <<>> /\ new_id = <<>> /\ sessions = <<>> /\ config = NoRecord

GraphIdle ==
    /\ include_closed = FALSE
    /\ ready = [called |-> FALSE]
    /\ depths = NoRecord
    /\ remaining = {}
    /\ depth = 0
    /\ max_iterations = 0
    /\ pc = "idle"
    /\ mermaid = [called |-> FALSE]

WriteIdle == outcome = NoRecord /\ calls = 0 /\ creating = NoRecord

AdrIdle == decisions = <<>> /\ adr = <<>>

MigrateIdle == project = <<>> /\ migrator = <<>>

TextIdle == content = <<>> /\ AdrIdle /\ MigrateIdle

BeyondStoreIdle == AllocIdle /\ GraphIdle /\ WriteIdle /\ TextIdle

SetOf(list) == {list[i] : i \in DOMAIN list}

RECURSIVE Strings(_, _)
Strings(chars, len) ==
    IF len = 0 THEN {<<>>}
    ELSE Strings(chars, len - 1)
         \cup {Append(str, c) : str \in Strings(chars, len - 1), c \in chars}

Get(d, k, default) == IF k \in DOMAIN d THEN d[k] ELSE default

Put(d, k, v) == [x \in DOMAIN d \cup {k} |-> IF x = k THEN v ELSE d[x]]

Ids == {"dp-001", "jb-001"}

Other(id) == IF id = "dp-001" THEN "jb-001" ELSE "dp-001"

(* The payloads a record of each type is drawn from: the minimal payload,  *)
(* a payload with every optional key, and the legacy  blocked_by  key.     *)
CreatedPayloads(id) ==
    { [title |-> "A"],
      [title |-> "B", issue_type |-> "bug", priority |-> 1, description |-> "d",
       depends_on |-> <<Other(id)>>, blocked_by |-> <<id>>, labels |-> <<"ui">>],
      [title |-> "C", blocked_by |-> <<Other(id)>>] }

UpdatedPayloads(id) ==
    { [priority |-> 0, labels |-> <<"api">>, depends_on |-> <<>>,
       blocked_by |-> <<id>>, reason |-> "r"],
      [priority |-> 3],
      [blocked_by |-> <<Other(id)>>] }

NotePayloads == { [content |-> "n"], NoRecord }

ClosedPayloads == { [reason |-> "done"], NoRecord }

Payloads(type, id) ==
    CASE type = "created" -> CreatedPayloads(id)
      [] type = "updated" -> UpdatedPayloads(id)
      [] type = "note" -> NotePayloads
      [] type = "closed" -> ClosedPayloads

MkEvent(ts, type, id, payload) ==
    [ts |-> ts, type |-> type, id |-> id] @@ payload

NoEvent == [type |-> "none"]

---------------------------------------------------------------------------
(* load_issues: the body of the loop, one branch per event type.           *)

created_depends_on_NoLegacy(e) == Get(e, "depends_on", <<>>)

created_depends_on(e) ==
    IF "depends_on" \in DOMAIN e THEN e.depends_on ELSE Get(e, "blocked_by", <<>>)

ApplyCreated_WallClock(iss, e) ==
    Put(iss, e.id,
        [id |-> e.id,
         title |-> e.title,
         type |-> Get(e, "issue_type", "task"),
         priority |-> Get(e, "priority", 2),
         description |-> Get(e, "description", ""),
         depends_on |-> created_depends_on(e),
         labels |-> Get(e, "labels", <<>>),
         created |-> clock,
         status |-> "open",
         notes |-> <<>>,
         updates |-> <<>>])

ApplyCreated(iss, e) ==
    Put(iss, e.id,
        [id |-> e.id,
         title |-> e.title,
         type |-> Get(e, "issue_type", "task"),
         priority |-> Get(e, "priority", 2),
         description |-> Get(e, "description", ""),
         depends_on |-> created_depends_on(e),
         labels |-> Get(e, "labels", <<>>),
         created |-> e.ts,
         status |-> "open",
         notes |-> <<>>,
         updates |-> <<>>])

(* dep_value = event.get("depends_on", event.get("blocked_by")); the       *)
(* payloads carry no null, so  dep_value is not None  is  HasDepValue.     *)
HasDepValue(e) == "depends_on" \in DOMAIN e \/ "blocked_by" \in DOMAIN e

dep_value(e) == IF "depends_on" \in DOMAIN e THEN e.depends_on ELSE e.blocked_by

update_record_AfterAssign(old, e) ==
    [ts |-> e.ts]
    @@ (IF "reason" \in DOMAIN e THEN [reason |-> e.reason] ELSE NoRecord)
    @@ (IF "priority" \in DOMAIN e
        THEN [priority |-> [from |-> e.priority, to |-> e.priority]] ELSE NoRecord)
    @@ (IF "labels" \in DOMAIN e
        THEN [labels |-> [from |-> e.labels, to |-> e.labels]] ELSE NoRecord)
    @@ (IF HasDepValue(e)
        THEN [depends_on |-> [from |-> dep_value(e), to |-> dep_value(e)]]
        ELSE NoRecord)

update_record(old, e) ==
    [ts |-> e.ts]
    @@ (IF "reason" \in DOMAIN e THEN [reason |-> e.reason] ELSE NoRecord)
    @@ (IF "priority" \in DOMAIN e
        THEN [priority |-> [from |-> old.priority, to |-> e.priority]] ELSE NoRecord)
    @@ (IF "labels" \in DOMAIN e
        THEN [labels |-> [from |-> old.labels, to |-> e.labels]] ELSE NoRecord)
    @@ (IF HasDepValue(e)
        THEN [depends_on |-> [from |-> old.depends_on, to |-> dep_value(e)]]
        ELSE NoRecord)

ApplyUpdated(iss, e) ==
    IF e.id \in DOMAIN iss
    THEN LET old == iss[e.id]
             new == [old EXCEPT
                       !.priority = Get(e, "priority", @),
                       !.labels = Get(e, "labels", @),
                       !.depends_on = IF HasDepValue(e) THEN dep_value(e) ELSE @,
                       !.updates = Append(@, update_record(old, e))]
         IN  Put(iss, e.id, new)
    ELSE iss

ApplyNote_Upsert(iss, e) ==
    LET note == [ts |-> e.ts, content |-> Get(e, "content", "")]
    IN  IF e.id \in DOMAIN iss
        THEN Put(iss, e.id, [iss[e.id] EXCEPT !.notes = Append(@, note)])
        ELSE Put(iss, e.id, [id |-> e.id, status |-> "open", notes |-> <<note>>])

ApplyNote_OpenOnly(iss, e) ==
    IF e.id \in DOMAIN iss /\ iss[e.id].status = "open"
    THEN Put(iss, e.id,
             [iss[e.id] EXCEPT
                !.notes = Append(@, [ts |-> e.ts, content |-> Get(e, "content", "")])])
    ELSE iss

ApplyNote(iss, e) ==
    IF e.id \in DOMAIN iss
    THEN Put(iss, e.id,
             [iss[e.id] EXCEPT
                !.notes = Append(@, [ts |-> e.ts, content |-> Get(e, "content", "")])])
    ELSE iss

ApplyClosed(iss, e) ==
    IF e.id \in DOMAIN iss
    THEN Put(iss, e.id,
             Put(Put(Put(iss[e.id], "status", "closed"),
                     "closed_reason", Get(e, "reason", "")),
                 "closed_at", e.ts))
    ELSE iss

ApplyEvent(iss, e) ==
    CASE e.type = "created" -> ApplyCreated(iss, e)
      [] e.type = "updated" -> ApplyUpdated(iss, e)
      [] e.type = "note" -> ApplyNote(iss, e)
      [] e.type = "closed" -> ApplyClosed(iss, e)
      [] OTHER -> iss

---------------------------------------------------------------------------
(* load_issues as a whole: the fold of the loop body over a stream, from   *)
(* the empty dict of line 94.                                              *)

EmptyIssues == NoRecord

RECURSIVE ReplayFrom(_, _)
ReplayFrom(iss, evs) ==
    IF evs = <<>> THEN iss
    ELSE ReplayFrom(ApplyEvent(iss, Head(evs)), Tail(evs))

Replay(evs) == ReplayFrom(EmptyIssues, evs)

---------------------------------------------------------------------------
(* The replay of an ordered stream, one event per step.  The stream comes  *)
(* from _load_all_events, so its timestamps never decrease.                *)

event == IF replayed = <<>> THEN NoEvent ELSE replayed[Len(replayed)]

Prefixes == {"dp", "jb"}

MergeIdle ==
    /\ files = NoRecord
    /\ glob_order = <<>>
    /\ all_events = <<>>
    /\ clock = 1
    /\ user = "dp"
    /\ loads = <<>>

InitReplay ==
    /\ issues = EmptyIssues
    /\ replayed = <<>>
    /\ MergeIdle
    /\ BeyondStoreIdle

Step(type) ==
    /\ Len(replayed) < MaxEvents
    /\ \E id \in Ids, ts \in {t \in 1..MaxTs : replayed # <<>> => t >= event.ts} :
         \E payload \in Payloads(type, id) :
           LET e == MkEvent(ts, type, id, payload)
           IN  /\ replayed' = Append(replayed, e)
               /\ issues' = ApplyEvent(issues, e)
    /\ UNCHANGED <<files, glob_order, all_events, clock, user, loads>>
    /\ UNCHANGED beyondStore

ReplayCreated == Step("created")

ReplayUpdated == Step("updated")

ReplayNote == Step("note")

ReplayClosed == Step("closed")

NextReplay == ReplayCreated \/ ReplayUpdated \/ ReplayNote \/ ReplayClosed

SpecReplay == InitReplay /\ [][NextReplay]_vars

---------------------------------------------------------------------------
(* The log files.  A line is a JSON record or a blank line; a file that    *)
(* does not exist is a name outside DOMAIN files.                          *)

LEGACY_EVENTS_FILE == "events.jsonl"

get_user_events_file(prefix) == "events-" \o prefix \o ".jsonl"

NsFiles == {get_user_events_file(p) : p \in Prefixes}

BlankLine == [blank |-> TRUE]

(* A line of spaces only.                                                  *)
WhitespaceLine == [blank |-> TRUE, text |-> " "]

(* A line that is not JSON, such as a record that was cut off.             *)
InvalidLine == [invalid |-> TRUE]

(* not line  instead of  not line.strip() .                                *)
IsBlank_EmptyOnly(line) == "blank" \in DOMAIN line /\ "text" \notin DOMAIN line

(* not line.strip()                                                        *)
IsBlank(line) == "blank" \in DOMAIN line

(* json.loads(line) returns a dict.                                        *)
Parses(line) == "blank" \notin DOMAIN line /\ "invalid" \notin DOMAIN line

(* _load_events_from_file raises json.JSONDecodeError.                     *)
json_loads_raises(filepath) ==
    /\ filepath \in DOMAIN files
    /\ \E i \in 1..Len(files[filepath]) :
         ~IsBlank(files[filepath][i]) /\ ~Parses(files[filepath][i])

(* _load_events_from_file.  An element of the returned list is the parsed  *)
(* record  ev  together with the file and line it comes from: a Python     *)
(* list holds objects, and two equal records of two lines are two objects. *)
_load_events_from_file(filepath) ==
    IF filepath \notin DOMAIN files THEN <<>>
    ELSE LET lines == files[filepath]
             objs == [i \in 1..Len(lines) |->
                        [src |-> filepath, pos |-> i, ev |-> lines[i]]]
         IN  SelectSeq(objs, LAMBDA o : ~IsBlank(o.ev))

(* key=lambda e: e.get("ts", "") : the empty string sorts before every     *)
(* timestamp.                                                              *)
TsKey(o) == IF "ts" \in DOMAIN o.ev THEN o.ev.ts ELSE 0

(* list.sort is stable: an element goes behind every element whose key is  *)
(* not greater than its own.                                               *)
InsertByKey_BeforeEqual(sorted, o) ==
    LET k == Cardinality({i \in 1..Len(sorted) : TsKey(sorted[i]) < TsKey(o)})
    IN  SubSeq(sorted, 1, k) \o <<o>> \o SubSeq(sorted, k + 1, Len(sorted))

InsertByKey(sorted, o) ==
    LET k == Cardinality({i \in 1..Len(sorted) : TsKey(sorted[i]) <= TsKey(o)})
    IN  SubSeq(sorted, 1, k) \o <<o>> \o SubSeq(sorted, k + 1, Len(sorted))

SortByTs_Unsorted(list) == list

RECURSIVE SortByTs(_)
SortByTs(list) ==
    IF list = <<>> THEN <<>>
    ELSE InsertByKey(SortByTs(SubSeq(list, 1, Len(list) - 1)), list[Len(list)])

RECURSIVE ExtendAll(_)
ExtendAll(paths) ==
    IF paths = <<>> THEN <<>>
    ELSE _load_events_from_file(Head(paths)) \o ExtendAll(Tail(paths))

(* ISSUES_DIR.glob("events-*.jsonl"): the namespace files that exist, in   *)
(* the order the directory lists them.                                     *)
Glob(order) == SelectSeq(order, LAMBDA f : f \in DOMAIN files)

(* _load_all_events when the directory lists the namespace files in        *)
(*  order : the namespace files, then the legacy file, then the sort.      *)
LoadAllEventsIn(order) ==
    SortByTs(ExtendAll(Glob(order)) \o _load_events_from_file(LEGACY_EVENTS_FILE))

_load_all_events == LoadAllEventsIn(glob_order)

(* _load_all_events, and with it load_issues, raises when reading one of   *)
(* the files does.                                                         *)
_load_all_events_raises ==
    \/ \E i \in 1..Len(Glob(glob_order)) : json_loads_raises(Glob(glob_order)[i])
    \/ json_loads_raises(LEGACY_EVENTS_FILE)

EventsOf(objs) == [i \in 1..Len(objs) |-> objs[i].ev]

load_issues == Replay(EventsOf(_load_all_events))

---------------------------------------------------------------------------
(* The logs grow by whole lines (the user's own writes, a git merge of     *)
(* another contributor's file, a manual edit), and load_issues runs over   *)
(* them at any time, under any user.                                       *)

Perms(S) == {q \in [1..Cardinality(S) -> S] : \A f \in S : \E i \in DOMAIN q : q[i] = f}

MergeLines ==
    {MkEvent(ts, "created", "dp-001", [title |-> "A"]) : ts \in 1..MaxTs}
    \cup {MkEvent(ts, "closed", "dp-001", [reason |-> "done"]) : ts \in 1..MaxTs}
    \cup {BlankLine}

TotalLines == LET RECURSIVE Sum(_)
                  Sum(S) == IF S = {} THEN 0
                            ELSE LET f == CHOOSE x \in S : TRUE
                                 IN  Len(files[f]) + Sum(S \ {f})
              IN  Sum(DOMAIN files)

InitMerge ==
    /\ issues = EmptyIssues
    /\ replayed = <<>>
    /\ files = NoRecord
    /\ glob_order \in Perms(NsFiles)
    /\ all_events = <<>>
    /\ clock = 1
    /\ user \in Prefixes
    /\ loads = <<>>
    /\ BeyondStoreIdle

(* A line is appended to a file (the file is created when it is missing).  *)
(* What an earlier load_issues returned is no longer a reading of the      *)
(* current logs.                                                           *)
WriteLine(max) ==
    /\ TotalLines < max
    /\ \E f \in NsFiles \cup {LEGACY_EVENTS_FILE}, line \in MergeLines :
         files' = Put(files, f, Append(Get(files, f, <<>>), line))
    /\ all_events' = <<>>
    /\ issues' = EmptyIssues
    /\ loads' = <<>>
    /\ UNCHANGED <<replayed, glob_order, clock, user>>
    /\ UNCHANGED beyondStore

(* One invocation of load_issues that returns.                             *)
LoadIssues ==
    /\ ~_load_all_events_raises
    /\ all_events' = _load_all_events
    /\ issues' = load_issues
    /\ loads' = IF loads = <<>> THEN <<[clock |-> clock, user |-> user]>>
                ELSE <<loads[1], [clock |-> clock, user |-> user]>>
    /\ UNCHANGED <<replayed, files, glob_order, clock, user>>
    /\ UNCHANGED beyondStore

WriteMergeLine == WriteLine(MaxLines)

NextMerge == WriteMergeLine \/ LoadIssues

SpecMerge == InitMerge /\ [][NextMerge]_vars

(* issues  and  all_events  are what load_issues computed from the logs    *)
(* as they are now.                                                        *)
Loaded == loads # <<>>

(* One invocation of load_issues that raises: the caller gets no list and  *)
(* no dict.                                                                *)
LoadIssuesRaises ==
    /\ _load_all_events_raises
    /\ outcome' = [op |-> "load_issues", raised |-> "JSONDecodeError"]
    /\ UNCHANGED <<storeVars, allocVars, graphVars, textVars, calls, creating>>

ReadLines ==
    {MkEvent(1, "created", "dp-001", [title |-> "A"]), BlankLine, WhitespaceLine,
     InvalidLine}

(* A line of any kind gets into a file: a write, a merge, an edit, a write *)
(* that was interrupted.                                                   *)
WriteReadLine ==
    /\ TotalLines < MaxReadLines
    /\ \E f \in NsFiles \cup {LEGACY_EVENTS_FILE}, line \in ReadLines :
         files' = Put(files, f, Append(Get(files, f, <<>>), line))
    /\ all_events' = <<>>
    /\ issues' = EmptyIssues
    /\ loads' = <<>>
    /\ outcome' = NoRecord
    /\ UNCHANGED <<replayed, glob_order, clock, user>>
    /\ UNCHANGED <<allocVars, graphVars, textVars, calls, creating>>

NextRead == WriteReadLine \/ LoadIssues \/ LoadIssuesRaises

SpecRead == InitMerge /\ [][NextRead]_vars

(* Between two invocations time passes and another user may be at work.    *)
Tick ==
    /\ clock < MaxTs
    /\ clock' = clock + 1
    /\ UNCHANGED <<issues, replayed, files, glob_order, all_events, user, loads>>
    /\ UNCHANGED beyondStore

SwitchUser ==
    /\ \E u \in Prefixes \ {user} : user' = u
    /\ UNCHANGED <<issues, replayed, files, glob_order, all_events, clock, loads>>
    /\ UNCHANGED beyondStore

WriteReloadLine == WriteLine(MaxReloadLines)

NextReload == WriteReloadLine \/ LoadIssues \/ Tick \/ SwitchUser

SpecReload == InitMerge /\ [][NextReload]_vars

---------------------------------------------------------------------------
(* ID allocation.  parse_issue_id and next_id work on the characters of an *)
(* ID, so here an ID is the sequence of its characters.  The IDs drawn     *)
(* hold no newline, so the  $  of the patterns is the end of the string.   *)

DigitChars == {"0", "1", "2", "3", "4", "5", "6", "7", "8", "9"}

LowerChars ==
    {"a", "b", "c", "d", "e", "f", "g", "h", "i", "j", "k", "l", "m",
     "n", "o", "p", "q", "r", "s", "t", "u", "v", "w", "x", "y", "z"}

DigitValue(c) ==
    CASE c = "0" -> 0 [] c = "1" -> 1 [] c = "2" -> 2 [] c = "3" -> 3 [] c = "4" -> 4
      [] c = "5" -> 5 [] c = "6" -> 6 [] c = "7" -> 7 [] c = "8" -> 8 [] c = "9" -> 9

DigitChar(d) == CHOOSE c \in DigitChars : DigitValue(c) = d

AllIn(str, chars) == \A i \in 1..Len(str) : str[i] \in chars

(* int(group): the value of a string of decimal digits.                    *)
RECURSIVE IntOf(_)
IntOf(digits) ==
    IF digits = <<>> THEN 0
    ELSE 10 * IntOf(SubSeq(digits, 1, Len(digits) - 1)) + DigitValue(digits[Len(digits)])

(* str(n): the decimal digits of n >= 0, without padding.                  *)
RECURSIVE StrOf(_)
StrOf(num) ==
    IF num < 10 THEN <<DigitChar(num)>>
    ELSE StrOf(num \div 10) \o <<DigitChar(num % 10)>>

(* f"{n:03d}": the decimal digits, padded with zeros on the left to at     *)
(* least three characters.                                                 *)
RECURSIVE ZeroPad(_, _)
ZeroPad(str, width) == IF Len(str) >= width THEN str ELSE ZeroPad(<<"0">> \o str, width)

Format03d(num) == ZeroPad(StrOf(num), 3)

(* re.match(r"^([a-z0-9]{2,4})-(\d+)$", issue_id): the hyphen is the first *)
(* character outside [a-z0-9], so the split is unique.                     *)
NewMatch(issue_id) ==
    \E k \in 2..4 :
       /\ Len(issue_id) >= k + 2
       /\ AllIn(SubSeq(issue_id, 1, k), LowerChars \cup DigitChars)
       /\ issue_id[k + 1] = "-"
       /\ AllIn(SubSeq(issue_id, k + 2, Len(issue_id)), DigitChars)

NewMatchSplit(issue_id) ==
    CHOOSE k \in 2..4 :
       /\ Len(issue_id) >= k + 2
       /\ AllIn(SubSeq(issue_id, 1, k), LowerChars \cup DigitChars)
       /\ issue_id[k + 1] = "-"
       /\ AllIn(SubSeq(issue_id, k + 2, Len(issue_id)), DigitChars)

(* re.match(r"^(\d+)$", issue_id)                                          *)
OldMatch(issue_id) == issue_id # <<>> /\ AllIn(issue_id, DigitChars)

(* parse_issue_id.  format  tells the three returns apart: (prefix, num),  *)
(* (None, num) and (None, None).                                           *)
parse_issue_id(issue_id) ==
    IF NewMatch(issue_id)
    THEN LET k == NewMatchSplit(issue_id)
         IN  [format |-> "new",
              prefix |-> SubSeq(issue_id, 1, k),
              num |-> IntOf(SubSeq(issue_id, k + 2, Len(issue_id)))]
    ELSE IF OldMatch(issue_id)
    THEN [format |-> "old", prefix |-> <<>>, num |-> IntOf(issue_id)]
    ELSE [format |-> "none", prefix |-> <<>>, num |-> 0]

(* parsed_prefix == prefix and num is not None : None equals no string.    *)
CountsFor_AnyPrefix(issue_id, prefix) == parse_issue_id(issue_id).format # "none"

CountsFor(issue_id, prefix) ==
    /\ parse_issue_id(issue_id).format = "new"
    /\ parse_issue_id(issue_id).prefix = prefix

MaxOf_Min(S) == IF S = {} THEN 0 ELSE CHOOSE x \in S : \A y \in S : x <= y

MaxOf(S) == IF S = {} THEN 0 ELSE CHOOSE x \in S : \A y \in S : y <= x

max_num_Count(iss, prefix) == Cardinality({k \in DOMAIN iss : CountsFor(k, prefix)})

max_num(iss, prefix) ==
    MaxOf({0} \cup {parse_issue_id(id).num : id \in {k \in DOMAIN iss : CountsFor(k, prefix)}})

(* The counter of the namespace dp, whatever the prefix.                  *)
next_id_OnePrefix(iss, prefix) ==
    <<"d", "p", "-">> \o Format03d(max_num(iss, <<"d", "p">>) + 1)

next_id(iss, prefix) == prefix \o <<"-">> \o Format03d(max_num(iss, prefix) + 1)

---------------------------------------------------------------------------
(* The dicts next_id is applied to: their keys are IDs of the user's       *)
(* namespace with every padding, IDs of other namespaces, legacy IDs,      *)
(* session IDs and strings that are no ID.                                 *)

RECURSIVE DigitStrings(_)
DigitStrings(len) ==
    IF len = 0 THEN {<<>>}
    ELSE {<<c>> \o t : c \in {"0", "9"}, t \in DigitStrings(len - 1)}

Numbers ==
    UNION {DigitStrings(len) : len \in 1..MaxDigits}
    \cup {<<"1">>, <<"0", "1">>, <<"0", "0", "1">>, <<"1", "0">>, <<"0", "1", "0">>,
          <<"1", "0", "0">>, <<"1", "0", "0", "0">>}

AllocPrefixes == {<<"d", "p">>, <<"j", "b">>, <<"a", "b", "1">>}

AllocIds ==
    {<<"d", "p", "-">> \o num : num \in Numbers}
    \cup {<<"j", "b", "-">> \o num : num \in {<<"0", "0", "9">>, <<"9", "9">>}}
    \cup {<<"a", "b", "1", "-", "0", "0", "9">>,
          <<"0", "9", "9">>, <<"9">>,
          <<"d", "p", "-", "s", "0", "0", "9">>, <<"j", "b", "-", "s", "9">>,
          <<"i", "n", "v", "a", "l", "i", "d">>,
          <<"d", "-", "0", "0", "9">>,
          <<"a", "b", "c", "d", "e", "-", "0", "0", "9">>,
          <<"d", "p", "-">>,
          <<"d", "p", "0", "0", "9">>,
          <<"D", "P", "-", "0", "9", "9">>}

InitAlloc ==
    /\ issues = EmptyIssues
    /\ replayed = <<>>
    /\ MergeIdle
    /\ prefix_arg \in AllocPrefixes
    /\ new_id = <<>>
    /\ sessions = <<>>
    /\ config = NoRecord
    /\ GraphIdle /\ WriteIdle /\ TextIdle

(* The dict gets one more key.                                             *)
AddKey ==
    /\ Cardinality(DOMAIN issues) < MaxKeys
    /\ \E id \in AllocIds \ DOMAIN issues : issues' = Put(issues, id, [id |-> id])
    /\ new_id' = <<>>
    /\ UNCHANGED <<replayed, files, glob_order, all_events, clock, user, loads>>
    /\ UNCHANGED <<prefix_arg, sessions, config, graphVars, writeVars, textVars>>

NextId ==
    /\ new_id = <<>>
    /\ new_id' = next_id(issues, prefix_arg)
    /\ UNCHANGED <<storeVars, prefix_arg, sessions, config, graphVars, writeVars, textVars>>

NextAlloc == AddKey \/ NextId

SpecAlloc == InitAlloc /\ [][NextAlloc]_vars

---------------------------------------------------------------------------
(* Session IDs.  The sessions store is not part of the sources at hand;    *)
(* parse_session_id and next_session_id follow the specification and the   *)
(* cases of tests/test_sessions.py: <prefix>-s<NNN>, legacy s<NNN>, one    *)
(* counter per prefix.                                                     *)

NewSessionMatch(session_id) ==
    \E k \in 2..4 :
       /\ Len(session_id) >= k + 3
       /\ AllIn(SubSeq(session_id, 1, k), LowerChars \cup DigitChars)
       /\ session_id[k + 1] = "-"
       /\ session_id[k + 2] = "s"
       /\ AllIn(SubSeq(session_id, k + 3, Len(session_id)), DigitChars)

NewSessionSplit(session_id) ==
    CHOOSE k \in 2..4 :
       /\ Len(session_id) >= k + 3
       /\ AllIn(SubSeq(session_id, 1, k), LowerChars \cup DigitChars)
       /\ session_id[k + 1] = "-"
       /\ session_id[k + 2] = "s"
       /\ AllIn(SubSeq(session_id, k + 3, Len(session_id)), DigitChars)

OldSessionMatch(session_id) ==
    /\ Len(session_id) >= 2
    /\ session_id[1] = "s"
    /\ AllIn(Tail(session_id), DigitChars)

parse_session_id(session_id) ==
    IF NewSessionMatch(session_id)
    THEN LET k == NewSessionSplit(session_id)
         IN  [format |-> "new",
              prefix |-> SubSeq(session_id, 1, k),
              num |-> IntOf(SubSeq(session_id, k + 3, Len(session_id)))]
    ELSE IF OldSessionMatch(session_id)
    THEN [format |-> "old", prefix |-> <<>>, num |-> IntOf(Tail(session_id))]
    ELSE [format |-> "none", prefix |-> <<>>, num |-> 0]

SessionCountsFor_AnyPrefix(session, prefix) ==
    parse_session_id(Get(session, "id", <<>>)).format # "none"

SessionCountsFor(session, prefix) ==
    /\ parse_session_id(Get(session, "id", <<>>)).format = "new"
    /\ parse_session_id(Get(session, "id", <<>>)).prefix = prefix

max_session_num(list, prefix) ==
    MaxOf({0} \cup {parse_session_id(list[i].id).num :
                      i \in {j \in DOMAIN list : SessionCountsFor(list[j], prefix)}})

next_session_id(list, prefix) ==
    prefix \o <<"-", "s">> \o Format03d(max_session_num(list, prefix) + 1)

SessionNumbers ==
    {<<"1">>, <<"0", "0", "1">>, <<"0", "0", "2">>, <<"0", "0", "5">>, <<"9">>,
     <<"0", "0", "9">>, <<"0", "1", "0">>, <<"9", "9", "9">>, <<"1", "0", "0", "0">>}

SessionIds ==
    {<<"d", "p", "-", "s">> \o n : n \in SessionNumbers}
    \cup {<<"j", "b", "-", "s", "0", "0", "1">>, <<"j", "b", "-", "s", "0", "4", "9">>,
          <<"a", "b", "1", "-", "s", "0", "0", "7">>,
          <<"s", "0", "4", "9">>, <<"s", "9">>,
          <<"d", "p", "-", "0", "4", "9">>, <<"d", "-", "s", "0", "4", "9">>,
          <<"a", "b", "c", "d", "e", "-", "s", "0", "4", "9">>,
          <<"d", "p", "-", "s">>, <<"D", "P", "-", "s", "0", "4", "9">>,
          <<"i", "n", "v", "a", "l", "i", "d">>}

InitSession ==
    /\ issues = EmptyIssues
    /\ replayed = <<>>
    /\ MergeIdle
    /\ prefix_arg \in AllocPrefixes
    /\ new_id = <<>>
    /\ sessions = <<>>
    /\ config = NoRecord
    /\ GraphIdle /\ WriteIdle /\ TextIdle

(* The list gets one more session.                                         *)
AddSession ==
    /\ Len(sessions) < MaxSessions
    /\ \E id \in SessionIds \ {sessions[i].id : i \in DOMAIN sessions} :
         sessions' = Append(sessions, [id |-> id])
    /\ new_id' = <<>>
    /\ UNCHANGED <<storeVars, prefix_arg, config, graphVars, writeVars, textVars>>

NextSessionId ==
    /\ new_id = <<>>
    /\ new_id' = next_session_id(sessions, prefix_arg)
    /\ UNCHANGED <<storeVars, prefix_arg, sessions, config, graphVars, writeVars, textVars>>

NextSession == AddSession \/ NextSessionId

SpecSession == InitSession /\ [][NextSession]_vars

---------------------------------------------------------------------------
(* The user prefix.  Strings are sequences of characters here as well.     *)

Capitals ==
    <<"A", "B", "C", "D", "E", "F", "G", "H", "I", "J", "K", "L", "M",
      "N", "O", "P", "Q", "R", "S", "T", "U", "V", "W", "X", "Y", "Z">>

Smalls ==
    <<"a", "b", "c", "d", "e", "f", "g", "h", "i", "j", "k", "l", "m",
      "n", "o", "p", "q", "r", "s", "t", "u", "v", "w", "x", "y", "z">>

(* Letters outside ASCII, which str.isalnum accepts and [a-z0-9] does not. *)
OtherCapitals == <<"É">>

OtherSmalls == <<"é">>

(* str.lower, character by character.                                      *)
LowerChar(c) ==
    LET from == Capitals \o OtherCapitals
        to == Smalls \o OtherSmalls
    IN  IF \E i \in DOMAIN from : from[i] = c
        THEN to[CHOOSE i \in DOMAIN from : from[i] = c]
        ELSE c

lower(str) == [i \in DOMAIN str |-> LowerChar(str[i])]

IsSpace(c) == c = " "

RECURSIVE lstrip(_)
lstrip(str) ==
    IF str # <<>> /\ IsSpace(Head(str)) THEN lstrip(Tail(str)) ELSE str

RECURSIVE rstrip(_)
rstrip(str) ==
    IF str # <<>> /\ IsSpace(str[Len(str)])
    THEN rstrip(SubSeq(str, 1, Len(str) - 1)) ELSE str

strip(str) == rstrip(lstrip(str))

(* str.isalnum                                                             *)
isalnum(str) ==
    /\ str # <<>>
    /\ AllIn(str, SetOf(Capitals) \cup SetOf(Smalls) \cup DigitChars
                    \cup SetOf(OtherCapitals) \cup SetOf(OtherSmalls))

(* str.split(): the runs of characters between the spaces.                 *)
RECURSIVE FirstWord(_)
FirstWord(str) ==
    IF str = <<>> \/ IsSpace(Head(str)) THEN <<>>
    ELSE <<Head(str)>> \o FirstWord(Tail(str))

RECURSIVE split(_)
split(str) ==
    LET rest == lstrip(str)
    IN  IF rest = <<>> THEN <<>>
        ELSE <<FirstWord(rest)>>
             \o split(SubSeq(rest, Len(FirstWord(rest)) + 1, Len(rest)))

(* A value that is None.                                                   *)
None == <<"None">>

Truthy(value) == value # None /\ value # <<>>

_derive_prefix_from_name(name) ==
    LET parts == split(name)
    IN  IF Len(parts) < 2 THEN None
        ELSE <<LowerChar(parts[1][1]), LowerChar(parts[Len(parts)][1])>>

(* _validate_prefix: the normalised prefix, or the PrefixError.            *)
_validate_prefix(prefix) ==
    LET normal == strip(lower(prefix))
    IN  IF prefix = <<>> THEN [raised |-> "cannot be empty"]
        ELSE IF normal = <<>> THEN [raised |-> "cannot be empty or whitespace only"]
        ELSE IF Len(normal) < 2 THEN [raised |-> "at least 2 characters"]
        ELSE IF Len(normal) > 4 THEN [raised |-> "at most 4 characters"]
        ELSE IF ~isalnum(normal) THEN [raised |-> "must be alphanumeric"]
        ELSE [raised |-> "", prefix |-> normal]

Explicit(prefix) ==
    IF _validate_prefix(prefix).raised # "" THEN _validate_prefix(prefix)
    ELSE [raised |-> "", prefix |-> _validate_prefix(prefix).prefix, derived |-> FALSE]

get_user_prefix_GitFirst(environ) ==
    IF Truthy(environ.git_prefix) THEN Explicit(environ.git_prefix)
    ELSE IF strip(environ.SKILL_ISSUES_PREFIX) # <<>>
         THEN Explicit(strip(environ.SKILL_ISSUES_PREFIX))
    ELSE IF Truthy(environ.user_name) /\ Truthy(_derive_prefix_from_name(environ.user_name))
         THEN [raised |-> "", prefix |-> _derive_prefix_from_name(environ.user_name),
               derived |-> TRUE]
    ELSE [raised |-> "", prefix |-> <<"x", "x">>, derived |-> TRUE]

(* get_user_prefix, given the value of SKILL_ISSUES_PREFIX ("" when unset) *)
(* and what _get_git_config returns for the two keys.                      *)
get_user_prefix(environ) ==
    IF strip(environ.SKILL_ISSUES_PREFIX) # <<>>
    THEN Explicit(strip(environ.SKILL_ISSUES_PREFIX))
    ELSE IF Truthy(environ.git_prefix) THEN Explicit(environ.git_prefix)
    ELSE IF Truthy(environ.user_name) /\ Truthy(_derive_prefix_from_name(environ.user_name))
         THEN [raised |-> "", prefix |-> _derive_prefix_from_name(environ.user_name),
               derived |-> TRUE]
    ELSE [raised |-> "", prefix |-> <<"x", "x">>, derived |-> TRUE]

---------------------------------------------------------------------------
(* The settings get_user_prefix meets.  _get_git_config returns None or a  *)
(* stripped string.                                                        *)

EnvValues ==
    Strings({"d", "1", " "}, MaxEnvChars)
    \cup {<<"D", "P">>, <<"d", "-", "p">>, <<"é", "a">>, <<" ", "e", "n", "v", " ">>}

GitPrefixValues == {None, <<>>, <<"g", "i", "t">>, <<"x">>, <<"É", "Z">>}

UserNames ==
    {None,
     <<"D", "a", "v", "i", "d", " ", "P", "a", "g", "e">>,
     <<"A", "l", "i", "c", "e">>,
     <<"j", "e", "a", "n", "-", "p", " ", " ", "d", "u", " ", "p", "o", "n", "t">>,
     <<"É", "m", "i", "l", "e", " ", "Z", "o", "l", "a">>,
     <<"(", "B", "o", "b", ")", " ", "O", "'", "N">>}

InitPrefix ==
    /\ issues = EmptyIssues
    /\ replayed = <<>>
    /\ MergeIdle
    /\ prefix_arg = <<>>
    /\ new_id = <<>>
    /\ sessions = <<>>
    /\ config = [SKILL_ISSUES_PREFIX |-> <<>>, git_prefix |-> None, user_name |-> None]
    /\ GraphIdle /\ WriteIdle /\ TextIdle

(* The settings are made before the prefix is asked for, each at most     *)
(* once and in one order: every combination of values is reached.          *)
Configure(key, values) ==
    /\ outcome = NoRecord
    /\ \E value \in values : config' = [config EXCEPT ![key] = value]
    /\ UNCHANGED <<storeVars, prefix_arg, new_id, sessions, graphVars, writeVars, textVars>>

ExportPrefix ==
    /\ config.SKILL_ISSUES_PREFIX = <<>> /\ config.git_prefix = None /\ config.user_name = None
    /\ Configure("SKILL_ISSUES_PREFIX", EnvValues)

GitConfigPrefix ==
    /\ config.git_prefix = None /\ config.user_name = None
    /\ Configure("git_prefix", GitPrefixValues)

GitConfigUserName ==
    /\ config.user_name = None
    /\ Configure("user_name", UserNames)

GetUserPrefix ==
    /\ outcome = NoRecord
    /\ outcome' = [op |-> "get_user_prefix"] @@ get_user_prefix(config)
    /\ UNCHANGED <<storeVars, allocVars, graphVars, calls, creating, textVars>>

NextPrefix == ExportPrefix \/ GitConfigPrefix \/ GitConfigUserName \/ GetUserPrefix

SpecPrefix == InitPrefix /\ [][NextPrefix]_vars

---------------------------------------------------------------------------
(* Readiness and depth leveling.                                           *)

DepsOf(iss, k) == SetOf(Get(iss[k], "depends_on", <<>>))

filter_open(iss) == [k \in {x \in DOMAIN iss : iss[x].status = "open"} |-> iss[k]]

unsatisfied_deps_Existing(v, all_issues) ==
    SetOf(Get(v, "depends_on", <<>>)) \cap DOMAIN all_issues

unsatisfied_deps(v, all_issues) ==
    SetOf(Get(v, "depends_on", <<>>)) \cap DOMAIN filter_open(all_issues)

filter_ready(iss, all_issues) ==
    [k \in {x \in DOMAIN iss :
              iss[x].status = "open" /\ unsatisfied_deps(iss[x], all_issues) = {}}
       |-> iss[k]]

(* generate_ascii_diagram: display_issues                                  *)
display_issues == IF include_closed THEN issues ELSE filter_open(issues)

(* The displayed dependencies, assigned or not.                            *)
deps_remaining_InDisplay(issue_id) ==
    SetOf(Get(display_issues[issue_id], "depends_on", <<>>)) \cap DOMAIN display_issues

deps_remaining(issue_id) ==
    (SetOf(Get(display_issues[issue_id], "depends_on", <<>>))
       \cap DOMAIN display_issues) \cap remaining

at_this_depth == {issue_id \in remaining : deps_remaining(issue_id) = {}}

(* depths[issue_id] = d  for every issue_id of  ids                        *)
SetDepths(d, ids) ==
    [k \in DOMAIN depths \cup ids |-> IF k \in ids THEN d ELSE depths[k]]

---------------------------------------------------------------------------
(* The issue maps the graph functions are applied to: every issue open or  *)
(* closed, with dependencies on itself, on the other issues and on an ID   *)
(* that no issue has.                                                      *)

GraphIds == {"dp-001", "dp-002", "jb-001"}

UnknownId == "zz-009"

RECURSIVE ListOf(_)
ListOf(S) ==
    IF S = {} THEN <<>>
    ELSE LET x == CHOOSE y \in S : TRUE IN <<x>> \o ListOf(S \ {x})

DepSets ==
    {SetOf(q) : q \in UNION {[1..len -> GraphIds \cup {UnknownId}] : len \in 0..MaxDeps}}

GraphEvents(status, deps) ==
    LET ids == ListOf(GraphIds)
    IN  [i \in 1..Len(ids) |->
           MkEvent(1, "created", ids[i],
                   [title |-> "A", depends_on |-> ListOf(deps[ids[i]])])]
        \o SelectSeq([i \in 1..Len(ids) |->
                        MkEvent(2, "closed", ids[i], [reason |-> "done"])],
                     LAMBDA e : status[e.id] = "closed")

InitGraph ==
    /\ \E status \in [GraphIds -> {"open", "closed"}], deps \in [GraphIds -> DepSets] :
         issues = Replay(GraphEvents(status, deps))
    /\ replayed = <<>>
    /\ MergeIdle
    /\ include_closed \in BOOLEAN
    /\ ready = [called |-> FALSE]
    /\ depths = NoRecord
    /\ remaining = {}
    /\ depth = 0
    /\ max_iterations = 0
    /\ pc = "idle"
    /\ mermaid = [called |-> FALSE]
    /\ AllocIdle /\ WriteIdle /\ TextIdle

(* filter_ready(all_issues, all_issues), as the command line calls it.     *)
FilterReady ==
    /\ pc = "idle"
    /\ ~ready.called
    /\ ready' = [called |-> TRUE, issues |-> filter_ready(issues, issues)]
    /\ UNCHANGED <<include_closed, depths, remaining, depth, max_iterations, pc, mermaid>>
    /\ UNCHANGED <<storeVars, allocVars, writeVars, textVars>>

(* generate_ascii_diagram up to the loop (lines 422-444).                  *)
BeginDiagram ==
    /\ pc = "idle"
    /\ IF DOMAIN display_issues = {}
       THEN /\ pc' = "done"
            /\ UNCHANGED <<depths, remaining, depth, max_iterations>>
       ELSE /\ pc' = "loop"
            /\ depths' = NoRecord
            /\ remaining' = DOMAIN display_issues
            /\ depth' = 0
            /\ max_iterations' = Cardinality(DOMAIN display_issues) + 1
    /\ UNCHANGED <<include_closed, ready, mermaid>>
    /\ UNCHANGED <<storeVars, allocVars, writeVars, textVars>>

(* A pass that does not use up the budget of passes.                       *)
LevelPass_NoBudget ==
    /\ pc = "loop"
    /\ remaining # {} /\ max_iterations > 0
    /\ max_iterations' = max_iterations
    /\ depths' = SetDepths(depth, at_this_depth)
    /\ remaining' = remaining \ at_this_depth
    /\ depth' = depth + 1
    /\ UNCHANGED <<include_closed, ready, pc, mermaid>>
    /\ UNCHANGED <<storeVars, allocVars, writeVars, textVars>>

(* One pass of the while loop (lines 445-456).                             *)
LevelPass ==
    /\ pc = "loop"
    /\ remaining # {} /\ max_iterations > 0
    /\ max_iterations' = max_iterations - 1
    /\ depths' = SetDepths(depth, at_this_depth)
    /\ remaining' = remaining \ at_this_depth
    /\ depth' = depth + 1
    /\ UNCHANGED <<include_closed, ready, pc, mermaid>>
    /\ UNCHANGED <<storeVars, allocVars, writeVars, textVars>>

(* What remains goes to depth 0.                                           *)
HandleCycles_DepthZero ==
    /\ pc = "loop"
    /\ ~(remaining # {} /\ max_iterations > 0)
    /\ depths' = SetDepths(0, remaining)
    /\ pc' = "done"
    /\ UNCHANGED <<include_closed, ready, remaining, depth, max_iterations, mermaid>>
    /\ UNCHANGED <<storeVars, allocVars, writeVars, textVars>>

(* The loop is left; what remains goes to the depth reached (lines 458-460). *)
HandleCycles ==
    /\ pc = "loop"
    /\ ~(remaining # {} /\ max_iterations > 0)
    /\ depths' = SetDepths(depth, remaining)
    /\ pc' = "done"
    /\ UNCHANGED <<include_closed, ready, remaining, depth, max_iterations, mermaid>>
    /\ UNCHANGED <<storeVars, allocVars, writeVars, textVars>>

(* generate_mermaid_diagram: the edges as a set of (dependency, dependent) *)
(* pairs, the fill colour of every node.                                   *)
CLOSED_FILL == "#90EE90"

BLOCKED_FILL == "#FFB6C1"

READY_FILL == "#87CEEB"

mermaid_edges_AllDeps(display) ==
    {<<dep_id, issue_id>> \in (UNION {DepsOf(display, k) : k \in DOMAIN display})
                                \X (DOMAIN display) :
       dep_id \in DepsOf(display, issue_id)}

mermaid_edges(display) ==
    {<<dep_id, issue_id>> \in (DOMAIN display) \X (DOMAIN display) :
       dep_id \in DepsOf(display, issue_id)}

has_incoming(display) == {e[2] : e \in mermaid_edges(display)}

mermaid_styles(display) ==
    [issue_id \in DOMAIN display |->
       IF display[issue_id].status = "closed" THEN CLOSED_FILL
       ELSE IF issue_id \in has_incoming(display) THEN BLOCKED_FILL
       ELSE READY_FILL]

GenerateMermaid ==
    /\ pc = "idle"
    /\ ~mermaid.called
    /\ mermaid' = IF DOMAIN display_issues = {}
                  THEN [called |-> TRUE, edges |-> {}, styles |-> NoRecord]
                  ELSE [called |-> TRUE,
                        edges |-> mermaid_edges(display_issues),
                        styles |-> mermaid_styles(display_issues)]
    /\ UNCHANGED <<include_closed, ready, depths, remaining, depth, max_iterations, pc>>
    /\ UNCHANGED <<storeVars, allocVars, writeVars, textVars>>

NextGraph == FilterReady \/ BeginDiagram \/ LevelPass \/ HandleCycles \/ GenerateMermaid

SpecGraph == InitGraph /\ [][NextGraph]_vars

---------------------------------------------------------------------------
(* Write operations.  An ID is a string to the store and a sequence of     *)
(* characters to next_id and to sorted.                                    *)

RECURSIVE Join(_)
Join(chars) == IF chars = <<>> THEN "" ELSE Head(chars) \o Join(Tail(chars))

UserPrefixes == << <<"d", "p">>, <<"j", "b">> >>

PrefixChars(prefix) == CHOOSE c \in SetOf(UserPrefixes) : Join(c) = prefix

(* The numbers an ID of the logs below can have: two issues of a namespace *)
(* exist at the start, and every write adds at most one.                   *)
NumberCap == 3 + MaxWrites

(* The IDs of the logs below, in the order of Python's string comparison.  *)
KnownIdChars ==
    << <<"0", "0", "1">> >> \o
    [i \in 1..(Len(UserPrefixes) * NumberCap) |->
       UserPrefixes[((i - 1) \div NumberCap) + 1] \o <<"-">>
         \o Format03d(((i - 1) % NumberCap) + 1)]
    \o << <<"z", "z", "-", "0", "0", "9">> >>

Chars(id) == CHOOSE c \in SetOf(KnownIdChars) : Join(c) = id

KeysAsChars(iss) == [c \in {Chars(k) : k \in DOMAIN iss} |-> iss[Join(c)]]

sorted(S) ==
    LET order == SelectSeq(KnownIdChars, LAMBDA c : Join(c) \in S)
    IN  [i \in DOMAIN order |-> Join(order[i])]

get_timestamp == clock

(* append_event, by lines: the event becomes the last line of the user's   *)
(* events file.                                                            *)
append_event_Legacy(e) ==
    Put(files, LEGACY_EVENTS_FILE, Append(Get(files, LEGACY_EVENTS_FILE, <<>>), e))

append_event(e) ==
    Put(files, get_user_events_file(user),
        Append(Get(files, get_user_events_file(user), <<>>), e))

(* The event dicts the operations build.                                   *)
created_event(ts, id, title, depends_on) ==
    [ts |-> ts, type |-> "created", id |-> id, title |-> title,
     issue_type |-> "task", priority |-> 2]
    @@ (IF depends_on # <<>> THEN [depends_on |-> depends_on] ELSE NoRecord)

closed_event(ts, id, reason) ==
    [ts |-> ts, type |-> "closed", id |-> id, reason |-> reason]

note_event(ts, id, text) ==
    [ts |-> ts, type |-> "note", id |-> id, content |-> text]

updated_event(ts, id, updated_deps, reason) ==
    [ts |-> ts, type |-> "updated", id |-> id, depends_on |-> updated_deps,
     reason |-> reason]

current_deps(iss, issue_id) == SetOf(Get(iss[issue_id], "depends_on", <<>>))

added_Requested(iss, issue_id, dep_ids) == SetOf(dep_ids)

added(iss, issue_id, dep_ids) == SetOf(dep_ids) \ current_deps(iss, issue_id)

removed_Requested(iss, issue_id, dep_ids) == SetOf(dep_ids)

removed(iss, issue_id, dep_ids) == SetOf(dep_ids) \cap current_deps(iss, issue_id)

(* The ValueError an operation raises on the reconstructed state  iss , or *)
(* "" when it raises none.                                                 *)
close_issue_error_NotFoundOnly(iss, issue_id) ==
    IF issue_id \notin DOMAIN iss THEN "not found" ELSE ""

close_issue_error(iss, issue_id) ==
    IF issue_id \notin DOMAIN iss THEN "not found"
    ELSE IF iss[issue_id].status = "closed" THEN "is already closed"
    ELSE ""

add_note_error(iss, issue_id) ==
    IF issue_id \notin DOMAIN iss THEN "not found" ELSE ""

add_dependency_error(iss, issue_id, dep_ids) ==
    IF issue_id \notin DOMAIN iss THEN "not found"
    ELSE IF iss[issue_id].status = "closed" THEN "is already closed"
    ELSE IF \E i \in DOMAIN dep_ids : dep_ids[i] \notin DOMAIN iss
         THEN "dependency not found"
    ELSE IF added(iss, issue_id, dep_ids) = {} THEN "already depends on"
    ELSE ""

remove_dependency_error(iss, issue_id, dep_ids) ==
    IF issue_id \notin DOMAIN iss THEN "not found"
    ELSE IF iss[issue_id].status = "closed" THEN "is already closed"
    ELSE IF removed(iss, issue_id, dep_ids) = {} THEN "does not depend on"
    ELSE ""

---------------------------------------------------------------------------
(* The logs the write operations start from: three issues of two users,    *)
(* the first created with or without dependencies, the first two open or   *)
(* closed by their creator; with or without a legacy file of one issue.    *)

SeedDeps == {<<>>, <<"dp-002">>, <<"dp-002", "jb-001">>, <<UnknownId>>}

SeedLines(ids, status, deps) ==
    [i \in 1..Len(ids) |-> created_event(1, ids[i], "A", deps[ids[i]])]
    \o SelectSeq([i \in 1..Len(ids) |-> closed_event(1, ids[i], "done")],
                 LAMBDA e : status[e.id] = "closed")

LegacySeeds ==
    {NoRecord,
     [f \in {LEGACY_EVENTS_FILE} |-> <<created_event(1, "001", "A", <<>>)>>]}

SeedFiles ==
    {[f \in NsFiles |->
        IF f = get_user_events_file("dp")
        THEN SeedLines(<<"dp-001", "dp-002">>, status, deps)
        ELSE SeedLines(<<"jb-001">>, status, deps)] @@ legacy :
       legacy \in LegacySeeds,
       status \in {st \in [GraphIds -> {"open", "closed"}] : st["jb-001"] = "open"},
       deps \in {d \in [GraphIds -> SeedDeps] : d["dp-002"] = <<>> /\ d["jb-001"] = <<>>}}

ArgIds == GraphIds \cup {UnknownId}

DepArgs ==
    {<<>>, <<"dp-001">>, <<"dp-002">>, <<"jb-001">>, <<"dp-002", "jb-001">>,
     <<"dp-002", UnknownId>>}

Reasons == {"done", "duplicate"}

InitWrite ==
    /\ issues = EmptyIssues
    /\ replayed = <<>>
    /\ files \in SeedFiles
    /\ glob_order \in Perms(NsFiles)
    /\ all_events = <<>>
    /\ clock \in 1..MaxTs
    /\ user \in Prefixes
    /\ loads = <<>>
    /\ outcome = NoRecord
    /\ calls = 0
    /\ creating = NoRecord
    /\ AllocIdle /\ GraphIdle /\ TextIdle

(* What every write operation does first, and what it leaves alone.        *)
Reconstruct ==
    /\ calls < MaxWrites
    /\ calls' = calls + 1
    /\ issues' = load_issues
    /\ all_events' = _load_all_events
    /\ UNCHANGED <<replayed, glob_order, clock, user, loads>>
    /\ UNCHANGED <<allocVars, graphVars, textVars, creating>>

(* load_issues raises in the first line of the operation, and the          *)
(* exception leaves the operation.                                         *)
ReconstructRaises(op) ==
    /\ calls < MaxWrites
    /\ calls' = calls + 1
    /\ outcome' = [op |-> op, raised |-> "JSONDecodeError"]
    /\ UNCHANGED storeVars
    /\ UNCHANGED <<allocVars, graphVars, textVars, creating>>

(* The operation raises ValueError after it has logged the attempt.        *)
Rejected_Logged(call, error) ==
    /\ outcome' = call @@ [raised |-> error]
    /\ files' = append_event([ts |-> get_timestamp, type |-> "rejected"])

(* The operation raises ValueError.                                        *)
Rejected(call, error) ==
    /\ outcome' = call @@ [raised |-> error]
    /\ UNCHANGED files

(* The operation appends its event and returns.                            *)
Accepted(call, e, returned) ==
    /\ outcome' = call @@ [raised |-> "", returned |-> returned]
    /\ files' = append_event(e)

CreateIssue ==
    IF _load_all_events_raises THEN ReconstructRaises("create_issue")
    ELSE
    /\ Reconstruct
    /\ \E depends_on \in {<<>>, <<"dp-001">>}, iss \in {load_issues} :
         LET new == Join(next_id(KeysAsChars(iss), PrefixChars(user)))
         IN  Accepted([op |-> "create_issue", depends_on |-> depends_on],
                      created_event(get_timestamp, new, "A", depends_on), new)

CloseIssue ==
    IF _load_all_events_raises THEN ReconstructRaises("close_issue")
    ELSE
    /\ Reconstruct
    /\ \E iss \in {load_issues} : \E issue_id \in ArgIds, reason \in Reasons :
         LET call == [op |-> "close_issue", issue_id |-> issue_id, reason |-> reason]
             error == close_issue_error(iss, issue_id)
         IN  IF error # "" THEN Rejected(call, error)
             ELSE Accepted(call, closed_event(get_timestamp, issue_id, reason), "None")

AddNote ==
    IF _load_all_events_raises THEN ReconstructRaises("add_note")
    ELSE
    /\ Reconstruct
    /\ \E iss \in {load_issues} : \E issue_id \in ArgIds :
         LET call == [op |-> "add_note", issue_id |-> issue_id, content |-> "n"]
             error == add_note_error(iss, issue_id)
         IN  IF error # "" THEN Rejected(call, error)
             ELSE Accepted(call, note_event(get_timestamp, issue_id, "n"), "None")

AddDependency ==
    IF _load_all_events_raises THEN ReconstructRaises("add_dependency")
    ELSE
    /\ Reconstruct
    /\ \E iss \in {load_issues} : \E issue_id \in ArgIds, dep_ids \in DepArgs :
         LET call == [op |-> "add_dependency", issue_id |-> issue_id, dep_ids |-> dep_ids]
             error == add_dependency_error(iss, issue_id, dep_ids)
         IN  IF error # "" THEN Rejected(call, error)
             ELSE Accepted(call,
                           updated_event(get_timestamp, issue_id,
                                         sorted(current_deps(iss, issue_id) \cup SetOf(dep_ids)),
                                         <<"Added dependencies", sorted(added(iss, issue_id, dep_ids))>>),
                           sorted(added(iss, issue_id, dep_ids)))

RemoveDependency ==
    IF _load_all_events_raises THEN ReconstructRaises("remove_dependency")
    ELSE
    /\ Reconstruct
    /\ \E iss \in {load_issues} : \E issue_id \in ArgIds, dep_ids \in DepArgs :
         LET call == [op |-> "remove_dependency", issue_id |-> issue_id, dep_ids |-> dep_ids]
             error == remove_dependency_error(iss, issue_id, dep_ids)
         IN  IF error # "" THEN Rejected(call, error)
             ELSE Accepted(call,
                           updated_event(get_timestamp, issue_id,
                                         sorted(current_deps(iss, issue_id) \ SetOf(dep_ids)),
                                         <<"Removed dependencies", sorted(removed(iss, issue_id, dep_ids))>>),
                           sorted(removed(iss, issue_id, dep_ids)))

NextWrite == CreateIssue \/ CloseIssue \/ AddNote \/ AddDependency \/ RemoveDependency

SpecWrite == InitWrite /\ [][NextWrite]_vars

(* The logs after a write of the user was interrupted: the user's file     *)
(* ends with a record that was cut off.                                    *)
InitHeal ==
    /\ issues = EmptyIssues
    /\ replayed = <<>>
    /\ user \in Prefixes
    /\ \E seed \in SeedFiles :
         files = Put(seed, get_user_events_file(user),
                     Append(seed[get_user_events_file(user)], InvalidLine))
    /\ glob_order \in Perms(NsFiles)
    /\ all_events = <<>>
    /\ clock \in 1..MaxTs
    /\ loads = <<>>
    /\ outcome = NoRecord
    /\ calls = 0
    /\ creating = NoRecord
    /\ AllocIdle /\ GraphIdle /\ TextIdle

SpecHeal == InitHeal /\ [][NextWrite]_vars

(* The load_issues that follows a write operation that returned.           *)
Reread ==
    /\ outcome # NoRecord
    /\ outcome.raised = ""
    /\ Len(loads) < calls
    /\ LoadIssues

NextReread == NextWrite \/ Reread

SpecReread == InitWrite /\ [][NextReread]_vars

---------------------------------------------------------------------------
(* Two writers, one per prefix, each in create_issue at the same time.     *)
(* user  is the writer whose process takes the step; between the           *)
(* reconstruction (lines 230-232) and the append (lines 234-250) of one    *)
(* writer the other may take any of its steps, and the clock may advance.  *)

(* The seeded logs, and the same with an issue of the namespace dp that    *)
(* was created under the prefix jb's file belongs to.                      *)
RaceSeeds ==
    SeedFiles
    \cup {Put(seed, get_user_events_file("jb"),
              Append(seed[get_user_events_file("jb")],
                     created_event(1, "dp-003", "A", <<>>))) : seed \in SeedFiles}

InitRace ==
    /\ issues = EmptyIssues
    /\ replayed = <<>>
    /\ files \in RaceSeeds
    /\ glob_order \in Perms(NsFiles)
    /\ all_events = <<>>
    /\ clock \in 1..MaxTs
    /\ user \in Prefixes
    /\ loads = <<>>
    /\ outcome = NoRecord
    /\ calls = 0
    /\ creating = [p \in Prefixes |-> [pc |-> "start"]]
    /\ AllocIdle /\ GraphIdle /\ TextIdle

(* issues = load_issues(); prefix, _ = get_user_prefix();                  *)
(* new_id = next_id(issues, prefix)                                        *)
RaceReconstruct ==
    /\ creating[user].pc = "start"
    /\ ~_load_all_events_raises
    /\ issues' = load_issues
    /\ all_events' = _load_all_events
    /\ \E iss \in {load_issues} :
         creating' = [creating EXCEPT ![user] =
                        [pc |-> "reconstructed",
                         new_id |-> Join(next_id(KeysAsChars(iss), PrefixChars(user)))]]
    /\ UNCHANGED <<replayed, files, glob_order, clock, user, loads, outcome, calls>>
    /\ UNCHANGED <<allocVars, graphVars, textVars>>

(* event = {...}; append_event(event); return new_id                       *)
RaceAppend ==
    /\ creating[user].pc = "reconstructed"
    /\ files' = append_event(created_event(get_timestamp, creating[user].new_id, "A", <<>>))
    /\ creating' = [creating EXCEPT ![user] =
                      [pc |-> "returned", new_id |-> @.new_id, returned |-> @.new_id]]
    /\ UNCHANGED <<issues, replayed, glob_order, all_events, clock, user, loads, outcome, calls>>
    /\ UNCHANGED <<allocVars, graphVars, textVars>>

NextRace == RaceReconstruct \/ RaceAppend \/ SwitchUser \/ Tick

SpecRace == InitRace /\ [][NextRace]_vars

---------------------------------------------------------------------------
(* append_event, by characters.  The text of a file is a sequence of       *)
(* characters.                                                             *)

NL == "\n"

Backslash == "\\"

Quote == "\""

(* What json.dumps writes for a character inside a string.                 *)
EscapeChar(c) ==
    CASE c = NL -> <<Backslash, "n">>
      [] c = Quote -> <<Backslash, Quote>>
      [] c = Backslash -> <<Backslash, Backslash>>
      [] OTHER -> <<c>>

RECURSIVE Escape(_)
Escape(str) == IF str = <<>> THEN <<>> ELSE EscapeChar(Head(str)) \o Escape(Tail(str))

(* json.dumps(event, separators=(",", ":")) of an event whose strings are  *)
(* value : an object around the escaped string.                            *)
json_dumps(value) == <<"{", Quote>> \o Escape(value) \o <<Quote, "}">>

needs_newline_Never(text) == FALSE

needs_newline(text) == text # <<>> /\ text[Len(text)] # NL

(* The file holds whole lines, and may end with a record that was cut off. *)
InitAppend ==
    /\ issues = EmptyIssues
    /\ replayed = <<>>
    /\ MergeIdle
    /\ content \in Strings({"a", NL}, MaxText)
    /\ AdrIdle /\ MigrateIdle
    /\ AllocIdle /\ GraphIdle /\ WriteIdle

AppendEvent ==
    /\ Len(content) <= MaxText
    /\ \E value \in Strings({"a", NL, Quote, Backslash}, MaxValue) :
         content' = content
                    \o (IF needs_newline(content) THEN <<NL>> ELSE <<>>)
                    \o json_dumps(value) \o <<NL>>
    /\ UNCHANGED <<storeVars, allocVars, graphVars, writeVars, adrVars, migrateVars>>

NextAppend == AppendEvent

SpecAppend == InitAppend /\ [][NextAppend]_vars

---------------------------------------------------------------------------
(* Architecture decision records (adr/cli.py).  The decisions directory is *)
(* a function from file names, as character sequences, to contents; of a   *)
(* content the model keeps the status line and the number in the heading.  *)

DraftName(slug) == <<"d", "r", "a", "f", "t", "-">> \o slug \o <<".", "m", "d">>

NumberedName(num_str, slug) == num_str \o <<"-">> \o slug \o <<".", "m", "d">>

MdName(slug) == slug \o <<".", "m", "d">>

NoDirectory == [exists |-> FALSE, files |-> <<>>]

HasFile(dir, name) == dir.exists /\ name \in DOMAIN dir.files

(* (\d+) at the start of a name: the longest run of digits.                *)
RECURSIVE LeadingDigits(_)
LeadingDigits(name) ==
    IF name # <<>> /\ Head(name) \in DigitChars
    THEN <<Head(name)>> \o LeadingDigits(Tail(name))
    ELSE <<>>

(* re.match(r"^(\d+)-", f.name)                                            *)
NumberMatch(name) ==
    /\ LeadingDigits(name) # <<>>
    /\ Len(name) > Len(LeadingDigits(name))
    /\ name[Len(LeadingDigits(name)) + 1] = "-"

NumberOf(name) == IntOf(LeadingDigits(name))

EndsWith(name, suffix) ==
    /\ Len(name) >= Len(suffix)
    /\ SubSeq(name, Len(name) - Len(suffix) + 1, Len(name)) = suffix

(* decisions_dir.glob("*.md") with the names that have a number.           *)
NumberedFiles(dir) == {f \in DOMAIN dir.files : EndsWith(f, <<".", "m", "d">>) /\ NumberMatch(f)}

(* One more than the number of numbered files.                             *)
find_next_number_Count(dir) ==
    IF ~dir.exists THEN 1 ELSE Cardinality(NumberedFiles(dir)) + 1

find_next_number(dir) ==
    IF ~dir.exists THEN 1
    ELSE MaxOf({0} \cup {NumberOf(f) : f \in NumberedFiles(dir)}) + 1

(* .replace(" ", "-").replace("_", "-")                                    *)
HyphenateChar(c) == IF c = " " \/ c = "_" THEN "-" ELSE c

(* re.sub(r"-+", "-", slug)                                                *)
RECURSIVE CollapseHyphens(_)
CollapseHyphens(str) ==
    IF Len(str) < 2 THEN str
    ELSE IF str[1] = "-" /\ str[2] = "-" THEN CollapseHyphens(Tail(str))
    ELSE <<Head(str)>> \o CollapseHyphens(Tail(str))

(* slug.strip("-")                                                         *)
RECURSIVE StripHyphens(_)
StripHyphens(str) ==
    IF str # <<>> /\ Head(str) = "-" THEN StripHyphens(Tail(str))
    ELSE IF str # <<>> /\ str[Len(str)] = "-"
         THEN StripHyphens(SubSeq(str, 1, Len(str) - 1))
    ELSE str

NormalizeSlug(slug) ==
    LET hyphenated == [i \in DOMAIN slug |-> HyphenateChar(lower(slug)[i])]
        kept == SelectSeq(hyphenated,
                          LAMBDA c : c \in LowerChars \cup DigitChars \cup {"-"})
    IN  StripHyphens(CollapseHyphens(kept))

DraftContent == [status |-> "Draft", heading |-> <<>>]

WithFile(dir, name, text) ==
    [exists |-> TRUE,
     files |-> [f \in DOMAIN dir.files \cup {name} |->
                  IF f = name THEN text ELSE dir.files[f]]]

WithoutFile(dir, name) ==
    [exists |-> dir.exists, files |-> [f \in DOMAIN dir.files \ {name} |-> dir.files[f]]]

(* create_draft: what it returns and the directory it leaves.              *)
create_draft(dir, arg) ==
    LET made == [exists |-> TRUE, files |-> dir.files]
        slug == NormalizeSlug(arg)
    IN  IF slug = <<>> THEN [returned |-> 1, decisions |-> made]
        ELSE IF HasFile(made, DraftName(slug)) THEN [returned |-> 1, decisions |-> made]
        ELSE IF \E f \in DOMAIN made.files :
                   EndsWith(f, <<"-">> \o MdName(slug)) /\ NumberMatch(f)
             THEN [returned |-> 1, decisions |-> made]
        ELSE [returned |-> 0, decisions |-> WithFile(made, DraftName(slug), DraftContent)]

(* accept_draft: the file it takes for the draft.                          *)
draft_file(dir, slug) ==
    IF HasFile(dir, DraftName(slug)) THEN DraftName(slug) ELSE MdName(slug)

(* accept_draft: what it returns and the directory it leaves.              *)
accept_draft(dir, slug) ==
    LET unchanged == [returned |-> 1, decisions |-> dir]
        draft == draft_file(dir, slug)
        num_str == Format03d(find_next_number(dir))
        new_file == NumberedName(num_str, slug)
    IN  IF ~dir.exists THEN unchanged
        ELSE IF ~HasFile(dir, draft) THEN unchanged
        ELSE IF dir.files[draft].status # "Draft" THEN unchanged
        ELSE IF HasFile(dir, new_file) THEN unchanged
        ELSE [returned |-> 0,
              decisions |->
                WithoutFile(WithFile(dir, new_file,
                                     [status |-> "Accepted", heading |-> num_str]),
                            draft)]

CreateArgs == {<<"a">>, <<"b">>, <<"A">>, <<"a", " ", "b">>, <<"_">>, <<"1">>}

AcceptArgs == {<<"a">>, <<"b">>, <<"A">>, <<"a", "-", "b">>, <<"1">>, <<"d", "r", "a", "f", "t", "-", "a">>, <<"0", "0", "1", "-", "a">>, <<"0", "0", "8", "-", "b">>}

InitialDirectories ==
    {NoDirectory,
     [exists |-> TRUE, files |-> <<>>],
     WithFile(NoDirectory, NumberedName(<<"0", "0", "7">>, <<"b">>),
              [status |-> "Accepted", heading |-> <<"0", "0", "7">>])}

InitAdr ==
    /\ issues = EmptyIssues
    /\ replayed = <<>>
    /\ MergeIdle
    /\ content = <<>>
    /\ decisions \in InitialDirectories
    /\ adr = [calls |-> 0, accepted |-> <<>>]
    /\ MigrateIdle
    /\ AllocIdle /\ GraphIdle /\ WriteIdle

(* One call; adr.accepted lists the new file of every accept_draft that    *)
(* returned 0, in the order of the calls.                                  *)
CallAdr(op, slug, result) ==
    /\ decisions' = result.decisions
    /\ adr' = [calls |-> adr.calls + 1,
               accepted |-> IF op = "accept_draft" /\ result.returned = 0
                            THEN Append(adr.accepted,
                                        CHOOSE f \in DOMAIN result.decisions.files :
                                           f \notin DOMAIN decisions.files)
                            ELSE adr.accepted,
               op |-> op, slug |-> slug, returned |-> result.returned]
    /\ UNCHANGED <<storeVars, allocVars, graphVars, writeVars, content, migrateVars>>

CreateDraft ==
    /\ adr.calls < MaxAdrCalls
    /\ \E slug \in CreateArgs : CallAdr("create_draft", slug, create_draft(decisions, slug))

AcceptDraft ==
    /\ adr.calls < MaxAdrCalls
    /\ \E slug \in AcceptArgs : CallAdr("accept_draft", slug, accept_draft(decisions, slug))

NextAdr == CreateDraft \/ AcceptDraft

SpecAdr == InitAdr /\ [][NextAdr]_vars

---------------------------------------------------------------------------
(* The migration to prefixed IDs (scripts/migrate-to-multi-user.py).  IDs  *)
(* and prefixes are character sequences; a dict is a function.             *)

(* re.match(r"^s\d+$", session_id)                                         *)
is_old_session_id(session_id) ==
    /\ Len(session_id) >= 2
    /\ Head(session_id) = "s"
    /\ AllIn(Tail(session_id), DigitChars)

(* re.match(r"^\d+$", issue_id)                                            *)
is_old_issue_id(issue_id) == issue_id # <<>> /\ AllIn(issue_id, DigitChars)

(* f"{prefix}-s{match.group(1)}"                                           *)
migrate_session_id(old_id, prefix) == prefix \o <<"-", "s">> \o Tail(old_id)

(* f"{prefix}-{match.group(1)}"                                            *)
migrate_issue_id(old_id, prefix) == prefix \o <<"-">> \o old_id

PENDING == <<"_", "_", "P", "E", "N", "D", "I", "N", "G", "_", "_">>

StartsWith(str, pat) == Len(str) >= Len(pat) /\ SubSeq(str, 1, Len(pat)) = pat

(* str.replace(pat, "")                                                    *)
RECURSIVE Remove(_, _)
Remove(str, pat) ==
    IF str = <<>> THEN <<>>
    ELSE IF StartsWith(str, pat) THEN Remove(SubSeq(str, Len(pat) + 1, Len(str)), pat)
    ELSE <<Head(str)>> \o Remove(Tail(str), pat)

(* blame_authors.get(i, "Unknown"): no blame is taken when a prefix is     *)
(* given.                                                                  *)
author_of(m, blame, i) ==
    IF m.prefix = <<>> /\ i \in DOMAIN blame THEN blame[i] ELSE "Unknown"

get_prefix_for_author(m, author) ==
    IF m.prefix # <<>> THEN m.prefix
    ELSE Get(m.author_map.authors, author, <<"x", "x">>)

get_prefix_for_session_line(m, line_num, default_author) ==
    IF Get(m.author_map.sessions, line_num, <<>>) # <<>>
    THEN m.author_map.sessions[line_num]
    ELSE get_prefix_for_author(m, default_author)

get_prefix_for_issue_line(m, line_num, default_author) ==
    IF Get(m.author_map.issues, line_num, <<>>) # <<>>
    THEN m.author_map.issues[line_num]
    ELSE get_prefix_for_author(m, default_author)

(* migrate_events, first pass: issue_id_map after the events 1..n.         *)
RECURSIVE build_issue_id_map(_, _, _, _)
build_issue_id_map(m, events, blame, n) ==
    IF n = 0 THEN m.issue_id_map
    ELSE LET before == build_issue_id_map(m, events, blame, n - 1)
             e == events[n]
         IN  IF e.type = "created" /\ is_old_issue_id(e.id)
             THEN [k \in DOMAIN before \cup {e.id} |->
                     IF k = e.id
                     THEN migrate_issue_id(e.id, get_prefix_for_issue_line(
                                                   m, n, author_of(m, blame, n)))
                     ELSE before[k]]
             ELSE before

(* migrate_events, second pass, for one event.                             *)
migrate_event(m, id_map, e) ==
    [f \in DOMAIN e |->
       CASE f = "id" -> Get(id_map, e.id, e.id)
         [] f = "depends_on" ->
              [j \in DOMAIN e.depends_on |->
                 Get(id_map, e.depends_on[j], e.depends_on[j])]
         [] f = "session" ->
              IF e.session \in DOMAIN m.session_id_map THEN m.session_id_map[e.session]
              ELSE IF is_old_session_id(e.session)
                   THEN migrate_session_id(e.session,
                                           IF m.prefix # <<>> THEN m.prefix
                                           ELSE <<"x", "x">>)
              ELSE e.session
         [] OTHER -> e[f]]

(* migrate_sessions: session_id_map after the sessions 1..n.               *)
RECURSIVE build_session_id_map(_, _, _, _)
build_session_id_map(m, list, blame, n) ==
    IF n = 0 THEN m.session_id_map
    ELSE LET before == build_session_id_map(m, list, blame, n - 1)
             s == list[n]
         IN  IF is_old_session_id(s.id)
             THEN [k \in DOMAIN before \cup {s.id} |->
                     IF k = s.id
                     THEN migrate_session_id(s.id, get_prefix_for_session_line(
                                                     m, n, author_of(m, blame, n)))
                     ELSE before[k]]
             ELSE before

(* migrate_sessions: one entry of issues_worked.                           *)
migrate_issue_worked(m, issue_id) ==
    IF issue_id \in DOMAIN m.issue_id_map THEN m.issue_id_map[issue_id]
    ELSE IF is_old_issue_id(issue_id) THEN PENDING \o issue_id
    ELSE issue_id

(* migrate_sessions, for the session of line n.                            *)
migrate_session(m, blame, n, s) ==
    LET prefix == get_prefix_for_session_line(m, n, author_of(m, blame, n))
        renamed == IF is_old_session_id(s.id)
                   THEN [id |-> migrate_session_id(s.id, prefix), user |-> prefix]
                   ELSE [id |-> s.id]
        worked == IF "issues_worked" \in DOMAIN s
                  THEN [issues_worked |->
                          [j \in DOMAIN s.issues_worked |->
                             migrate_issue_worked(m, s.issues_worked[j])]]
                  ELSE NoRecord
    IN  renamed @@ worked @@ s

(* finalize_sessions: one entry of issues_worked.                          *)
finalize_issue_worked(m, iid) ==
    IF StartsWith(iid, PENDING) THEN Get(m.issue_id_map, Remove(iid, PENDING), iid)
    ELSE iid

finalize_session(m, s) ==
    IF "issues_worked" \in DOMAIN s
    THEN [issues_worked |->
            [j \in DOMAIN s.issues_worked |-> finalize_issue_worked(m, s.issues_worked[j])]]
         @@ s
    ELSE s

(* The projects the migration is run on: two or three issue events in the  *)
(* old format, one session, the author git blame gives for every line.     *)
Authors == {"Ann Lee", "Bob Ray"}

OldIssue1 == <<"0", "0", "1">>

OldIssue2 == <<"0", "0", "2">>

OldSession == <<"s", "0", "0", "1">>

DependencyFields ==
    {NoRecord,
     [depends_on |-> <<OldIssue1>>],
     [blocked_by |-> <<OldIssue1>>],
     [depends_on |-> <<OldIssue1, <<"0", "0", "7">>>>]}

WorkedLists ==
    {NoRecord,
     [issues_worked |-> <<OldIssue1>>],
     [issues_worked |-> <<OldIssue2, <<"0", "0", "7">>>>],
     [issues_worked |-> <<<<"d", "p", "-", "0", "0", "1">>>>]}

EventLists ==
    {<<[ts |-> 1, type |-> "created", id |-> OldIssue1, title |-> "A"] @@ ref,
       [ts |-> 1, type |-> "created", id |-> OldIssue2, title |-> "B"] @@ deps>>
       \o tail :
       ref \in {NoRecord, [session |-> OldSession]},
       deps \in DependencyFields,
       tail \in {<<>>, <<[ts |-> 2, type |-> "closed", id |-> OldIssue1,
                         reason |-> "done", session |-> OldSession]>>}}

SessionLists == {<<[id |-> OldSession, topic |-> "t"] @@ worked>> : worked \in WorkedLists}

AuthorMaps ==
    {[authors |-> [a \in Authors |-> IF a = "Ann Lee" THEN <<"a", "l">> ELSE <<"b", "r">>],
      sessions |-> overrides, issues |-> <<>>] :
       overrides \in {<<>>, <<<<"z", "z">>>>}}

InitMigrate ==
    /\ issues = EmptyIssues
    /\ replayed = <<>>
    /\ MergeIdle
    /\ content = <<>>
    /\ AdrIdle
    /\ \E events \in EventLists, list \in SessionLists :
         \E event_authors \in [DOMAIN events -> Authors],
            session_authors \in [DOMAIN list -> Authors] :
           project = [events |-> events, sessions |-> list,
                      event_authors |-> event_authors,
                      session_authors |-> session_authors]
    /\ \E prefix \in {<<>>, <<"d", "p">>}, author_map \in AuthorMaps :
         /\ prefix # <<>> => author_map.sessions = <<>>
         /\ migrator = [prefix |-> prefix, author_map |-> author_map,
                        session_id_map |-> <<>>, issue_id_map |-> <<>>,
                        events |-> <<>>, sessions |-> <<>>, pc |-> "run"]
    /\ AllocIdle /\ GraphIdle /\ WriteIdle

MigrateStep ==
    UNCHANGED <<storeVars, allocVars, graphVars, writeVars, content, adrVars>>

(* run: events = self.migrate_events(events_file)                          *)
MigrateEvents ==
    /\ migrator.pc = "run"
    /\ \E id_map \in {build_issue_id_map(migrator, project.events,
                                         project.event_authors, Len(project.events))} :
         migrator' = [migrator EXCEPT
                        !.issue_id_map = id_map,
                        !.events = [i \in DOMAIN project.events |->
                                      migrate_event(migrator, id_map, project.events[i])],
                        !.pc = "events migrated"]
    /\ UNCHANGED project
    /\ MigrateStep

(* run: sessions = self.migrate_sessions(sessions_file)                    *)
MigrateSessions ==
    /\ migrator.pc = "events migrated"
    /\ migrator' = [migrator EXCEPT
                      !.session_id_map =
                         build_session_id_map(migrator, project.sessions,
                                              project.session_authors,
                                              Len(project.sessions)),
                      !.sessions = [i \in DOMAIN project.sessions |->
                                      migrate_session(migrator, project.session_authors,
                                                      i, project.sessions[i])],
                      !.pc = "sessions migrated"]
    /\ UNCHANGED project
    /\ MigrateStep

(* run: sessions = self.finalize_sessions(sessions)                        *)
FinalizeSessions ==
    /\ migrator.pc = "sessions migrated"
    /\ migrator' = [migrator EXCEPT
                      !.sessions = [i \in DOMAIN migrator.sessions |->
                                      finalize_session(migrator, migrator.sessions[i])],
                      !.pc = "finalized"]
    /\ UNCHANGED project
    /\ MigrateStep

(* run: the files are written (no dry run).                                *)
WriteMigrated ==
    /\ migrator.pc = "finalized"
    /\ project' = [project EXCEPT
                     !.events = IF migrator.events # <<>> THEN migrator.events ELSE @,
                     !.sessions = IF migrator.sessions # <<>> THEN migrator.sessions ELSE @]
    /\ migrator' = [migrator EXCEPT !.pc = "done"]
    /\ MigrateStep

NextMigrate == MigrateEvents \/ MigrateSessions \/ FinalizeSessions \/ WriteMigrated

SpecMigrate == InitMigrate /\ [][NextMigrate]_vars

---------------------------------------------------------------------------
(* Properties of the replay.  In a step of SpecReplay,  event'  is the     *)
(* event the loop body is applied to,  issues  the dict before it and      *)
(* issues'  the dict after it.                                             *)

IsPrefixOf(s, t) == Len(s) <= Len(t) /\ SubSeq(t, 1, Len(s)) = s

(* C1: a `created` event whose ID is already in the dict is ignored: it    *)
(* replaces no title or field, clears no notes or update history and does  *)
(* not reset the status, so the entity stays the one of the first          *)
(* `created`.                                                              *)
C1_DuplicateCreatedIgnored ==
    [][(event'.type = "created" /\ event'.id \in DOMAIN issues)
         => issues' = issues]_vars

(* C2: status is monotonic under replay: an issue that the replay of a     *)
(* prefix reports closed is reported closed by the replay of every longer  *)
(* prefix, whatever the type of the events that follow.                    *)
C2_ClosedNeverReopens ==
    [][\A id \in DOMAIN issues :
         issues[id].status = "closed"
           => id \in DOMAIN issues' /\ issues'[id].status = "closed"]_vars

(* C3: of several `closed` events for one issue only the first is applied: *)
(* a `closed` event for an issue that is already closed leaves the issue,  *)
(* its closing reason and its closing timestamp as they are.               *)
C3_FirstClosedWins ==
    [][(/\ event'.type = "closed"
        /\ event'.id \in DOMAIN issues
        /\ issues[event'.id].status = "closed")
         => issues' = issues]_vars

(* C4: an `updated`, `note` or `closed` event whose ID has no entity       *)
(* leaves the whole dict unchanged, and a later `created` of that ID       *)
(* yields the entity of that `created` alone: open, without notes, update  *)
(* history or closing fields.                                              *)
C4_UnknownIdIgnored ==
    [][/\ (event'.type \in {"updated", "note", "closed"}
           /\ event'.id \notin DOMAIN issues)
         => issues' = issues
       /\ (event'.type = "created" /\ event'.id \notin DOMAIN issues)
         => /\ DOMAIN issues' = DOMAIN issues \cup {event'.id}
            /\ \A id \in DOMAIN issues : issues'[id] = issues[id]
            /\ issues'[event'.id].status = "open"
            /\ issues'[event'.id].notes = <<>>
            /\ issues'[event'.id].updates = <<>>
            /\ issues'[event'.id].created = event'.ts
            /\ DOMAIN issues'[event'.id] \cap {"closed_reason", "closed_at"} = {}]_vars

(* C4 witness: the stream held an `updated`, `note` or `closed` event for  *)
(* an ID before the first `created` of that ID, and the ID is now there.   *)
C4_Witness ==
    /\ Len(replayed) >= 2
    /\ replayed[1].type \in {"updated", "note", "closed"}
    /\ event.type = "created"
    /\ event.id = replayed[1].id
    /\ \A k \in 1..(Len(replayed) - 1) :
         replayed[k].id = event.id /\ replayed[k].type # "created"
    /\ issues[event.id].status = "open"

(* C8: an `updated` event for an existing issue sets exactly those of      *)
(* priority, labels and dependency list that its payload carries (the      *)
(* dependency list under `depends_on` or the legacy `blocked_by`), leaves  *)
(* every other field and every other issue alone, and appends one history  *)
(* entry: the timestamp, the reason when given, and from/to of each field  *)
(* the payload carries.                                                    *)
C8_UpdatedFrame ==
    [][(event'.type = "updated" /\ event'.id \in DOMAIN issues)
         => LET e == event'
                old == issues[e.id]
                new == issues'[e.id]
                deps == IF "depends_on" \in DOMAIN e THEN e.depends_on
                        ELSE IF "blocked_by" \in DOMAIN e THEN e.blocked_by
                        ELSE old.depends_on
                u == new.updates[Len(new.updates)]
            IN  /\ DOMAIN issues' = DOMAIN issues
                /\ \A id \in DOMAIN issues \ {e.id} : issues'[id] = issues[id]
                /\ DOMAIN new = DOMAIN old
                /\ \A k \in DOMAIN old \ {"priority", "labels", "depends_on", "updates"} :
                     new[k] = old[k]
                /\ new.priority = IF "priority" \in DOMAIN e THEN e.priority
                                  ELSE old.priority
                /\ new.labels = IF "labels" \in DOMAIN e THEN e.labels ELSE old.labels
                /\ new.depends_on = deps
                /\ Len(new.updates) = Len(old.updates) + 1
                /\ IsPrefixOf(old.updates, new.updates)
                /\ u.ts = e.ts
                /\ DOMAIN u =
                     {"ts"} \cup (DOMAIN e \cap {"reason", "priority", "labels"})
                     \cup (IF DOMAIN e \cap {"depends_on", "blocked_by"} # {}
                           THEN {"depends_on"} ELSE {})
                /\ "reason" \in DOMAIN e => u.reason = e.reason
                /\ "priority" \in DOMAIN e
                     => u.priority = [from |-> old.priority, to |-> e.priority]
                /\ "labels" \in DOMAIN e
                     => u.labels = [from |-> old.labels, to |-> e.labels]
                /\ "depends_on" \in DOMAIN u
                     => u.depends_on = [from |-> old.depends_on, to |-> deps]]_vars

(* C8 witness: an `updated` event that carries only a priority has been    *)
(* applied to an issue whose labels and dependencies are not the defaults. *)
C8_Witness ==
    /\ event.type = "updated"
    /\ DOMAIN event = {"ts", "type", "id", "priority"}
    /\ event.id \in DOMAIN issues
    /\ issues[event.id].priority = event.priority
    /\ issues[event.id].labels # <<>>
    /\ issues[event.id].depends_on # <<>>
    /\ Len(issues[event.id].updates) >= 1
    /\ DOMAIN issues = Ids

(* C9: a `note` event for an existing issue, open or closed, appends one   *)
(* note (its timestamp and content) at the end of the note list and        *)
(* changes no other field and no other issue.                              *)
C9_NoteFrame ==
    [][(event'.type = "note" /\ event'.id \in DOMAIN issues)
         => LET e == event'
                old == issues[e.id]
                new == issues'[e.id]
            IN  /\ DOMAIN issues' = DOMAIN issues
                /\ \A id \in DOMAIN issues \ {e.id} : issues'[id] = issues[id]
                /\ DOMAIN new = DOMAIN old
                /\ \A k \in DOMAIN old \ {"notes"} : new[k] = old[k]
                /\ new.notes =
                     old.notes \o <<[ts |-> e.ts,
                                     content |-> IF "content" \in DOMAIN e
                                                 THEN e.content ELSE ""]>>]_vars

(* C9 witness: a note has been appended to an issue that is closed.        *)
C9_Witness ==
    /\ event.type = "note"
    /\ event.id \in DOMAIN issues
    /\ issues[event.id].status = "closed"
    /\ issues[event.id].closed_at <= event.ts
    /\ Len(issues[event.id].notes) >= 1

(* C10: a `created` event puts an open issue without notes and without     *)
(* update history under its ID; priority, kind, dependency list and label  *)
(* list are the payload's, or 2, task, empty and empty when the payload    *)
(* omits them; without `depends_on` the legacy `blocked_by` list is the    *)
(* dependency list.                                                        *)
C10_CreatedDefaults ==
    [][event'.type = "created"
         => LET e == event'
                new == issues'[e.id]
            IN  /\ e.id \in DOMAIN issues'
                /\ new.id = e.id
                /\ new.title = e.title
                /\ new.created = e.ts
                /\ new.status = "open"
                /\ new.notes = <<>>
                /\ new.updates = <<>>
                /\ new.priority = IF "priority" \in DOMAIN e THEN e.priority ELSE 2
                /\ new.type = IF "issue_type" \in DOMAIN e THEN e.issue_type ELSE "task"
                /\ new.labels = IF "labels" \in DOMAIN e THEN e.labels ELSE <<>>
                /\ new.depends_on =
                     IF "depends_on" \in DOMAIN e THEN e.depends_on
                     ELSE IF "blocked_by" \in DOMAIN e THEN e.blocked_by
                     ELSE <<>>]_vars

(* C10 witness: a `created` event with nothing but a title and the legacy  *)
(* `blocked_by` list has been replayed.                                    *)
C10_Witness ==
    /\ event.type = "created"
    /\ DOMAIN event = {"ts", "type", "id", "title", "blocked_by"}
    /\ issues[event.id].depends_on = event.blocked_by
    /\ issues[event.id].depends_on # <<>>
    /\ issues[event.id].priority = 2
    /\ issues[event.id].type = "task"

---------------------------------------------------------------------------
(* Properties of the merge.                                                *)

IsRecord(f, i) == f \in DOMAIN files /\ i \in 1..Len(files[f]) /\ ~IsBlank(files[f][i])

Unsorted == ExtendAll(Glob(glob_order)) \o _load_events_from_file(LEGACY_EVENTS_FILE)

(* C5: the merged stream holds every record of every namespace file and of *)
(* the legacy file exactly once and nothing else, its timestamps never     *)
(* decrease, and two records of one file with the same timestamp are in    *)
(* the order of their lines.                                               *)
C5_MergeStableSorted ==
    Loaded =>
      /\ \A f \in DOMAIN files : \A i \in 1..Len(files[f]) :
           Cardinality({k \in 1..Len(all_events) :
                          all_events[k].src = f /\ all_events[k].pos = i})
             = IF IsBlank(files[f][i]) THEN 0 ELSE 1
      /\ \A k \in 1..Len(all_events) :
           /\ IsRecord(all_events[k].src, all_events[k].pos)
           /\ all_events[k].ev = files[all_events[k].src][all_events[k].pos]
      /\ \A k, l \in 1..Len(all_events) :
           k < l =>
             /\ all_events[k].ev.ts <= all_events[l].ev.ts
             /\ (all_events[k].src = all_events[l].src
                 /\ all_events[k].ev.ts = all_events[l].ev.ts)
                  => all_events[k].pos < all_events[l].pos

(* C5 witness: a merge of records of more than one file, two of them from  *)
(* one file with one timestamp, which the sort had to reorder.             *)
C5_Witness ==
    /\ Loaded
    /\ all_events # Unsorted
    /\ \E k, l \in 1..Len(all_events) :
         /\ k < l
         /\ all_events[k].src = all_events[l].src
         /\ all_events[k].ev.ts = all_events[l].ev.ts
         /\ all_events[k].ev # all_events[l].ev
    /\ \E k, l \in 1..Len(all_events) : all_events[k].src # all_events[l].src

DistinctTimestamps ==
    \A f, g \in DOMAIN files : \A i \in 1..Len(files[f]), j \in 1..Len(files[g]) :
       (~IsBlank(files[f][i]) /\ ~IsBlank(files[g][j]) /\ <<f, i>> # <<g, j>>)
         => files[f][i].ts # files[g][j].ts

(* C6: when all timestamps are distinct, the merged stream is in strictly  *)
(* increasing timestamp order and is the same, with the same reconstructed *)
(* issues, for every order in which the namespace files are listed.        *)
C6_MergeOrderIndependent ==
    (Loaded /\ DistinctTimestamps) =>
      /\ \A k, l \in 1..Len(all_events) :
           k < l => all_events[k].ev.ts < all_events[l].ev.ts
      /\ \A order \in Perms(NsFiles) :
           /\ LoadAllEventsIn(order) = all_events
           /\ Replay(EventsOf(LoadAllEventsIn(order))) = issues

(* C6 witness: two namespace files of one event each, the file listed      *)
(* first holding the later event, merged with the earlier event first.     *)
C6_Witness ==
    /\ Loaded
    /\ DOMAIN files = NsFiles
    /\ \A f \in NsFiles : Len(files[f]) = 1 /\ ~IsBlank(files[f][1])
    /\ files[glob_order[1]][1].ts > files[glob_order[2]][1].ts
    /\ Len(all_events) = 2
    /\ all_events[1].src = glob_order[2]
    /\ all_events[2].src = glob_order[1]
    /\ issues # EmptyIssues

---------------------------------------------------------------------------
(* Properties of the allocation.                                           *)

(* The IDs of the form  p-N : the prefix, a hyphen, one or more digits.    *)
InNamespace(id, p) ==
    /\ Len(id) >= Len(p) + 2
    /\ SubSeq(id, 1, Len(p)) = p
    /\ id[Len(p) + 1] = "-"
    /\ \A i \in (Len(p) + 2)..Len(id) : id[i] \in DigitChars

DigitsOf(id, p) == SubSeq(id, Len(p) + 2, Len(id))

OwnKeys == {k \in DOMAIN issues : InNamespace(k, prefix_arg)}

OwnNumbers == {IntOf(DigitsOf(k, prefix_arg)) : k \in OwnKeys}

Allocated == new_id # <<>>

(* C11: next_id returns the prefix, a hyphen and the largest number of the *)
(* IDs  p-N  of the dict plus one, in decimal with zeros on the left up to *)
(* three digits; a gap below the largest number is not reused, and without *)
(* an ID under the prefix the result is  p-001.                            *)
C11_NextIdIsMaxPlusOne ==
    Allocated =>
      LET digits == DigitsOf(new_id, prefix_arg)
          largest == IF OwnNumbers = {} THEN 0
                     ELSE CHOOSE x \in OwnNumbers : \A y \in OwnNumbers : y <= x
      IN  /\ InNamespace(new_id, prefix_arg)
          /\ IntOf(digits) = largest + 1
          /\ Len(digits) >= 3
          /\ Len(digits) > 3 => digits[1] # "0"
          /\ OwnKeys = {} => digits = <<"0", "0", "1">>

(* C11 witness: the dict holds two IDs of the prefix with unused numbers   *)
(* below the larger one, and next_id returned the number after it.         *)
C11_Witness ==
    /\ Allocated
    /\ prefix_arg = <<"d", "p">>
    /\ DOMAIN issues = {<<"d", "p", "-", "0", "0", "1">>, <<"d", "p", "-", "0", "0", "9">>}
    /\ new_id = <<"d", "p", "-", "0", "1", "0">>

ForeignIds == {id \in AllocIds : ~InNamespace(id, prefix_arg)}

Without(iss, keys) == [k \in DOMAIN iss \ keys |-> iss[k]]

(* C12: the value next_id returns for a prefix is the same after any IDs   *)
(* outside the prefix's namespace are removed from the dict or one is      *)
(* added to it: IDs of another prefix, legacy numbers, session IDs and     *)
(* strings that are no ID.                                                 *)
C12_ForeignIdsIgnored ==
    Allocated =>
      /\ \A gone \in SUBSET (DOMAIN issues \cap ForeignIds) :
           next_id(Without(issues, gone), prefix_arg) = new_id
      /\ \A id \in ForeignIds :
           next_id(Put(issues, id, [id |-> id]), prefix_arg) = new_id

(* C12 witness: next to an ID of the prefix the dict holds an ID of        *)
(* another prefix with a larger number.                                    *)
C12_Witness ==
    /\ Allocated
    /\ prefix_arg = <<"d", "p">>
    /\ DOMAIN issues = {<<"d", "p", "-", "0", "0", "1">>, <<"j", "b", "-", "9", "9">>}
    /\ new_id = <<"d", "p", "-", "0", "0", "2">>

(* C13: the ID next_id returns is no key of the dict, with whatever        *)
(* padding and number of digits the keys of the prefix are written.        *)
C13_NextIdIsFresh == Allocated => new_id \notin DOMAIN issues

(* C13 witness: the dict holds the number 9 without padding and the number *)
(* 10 padded to three digits, and next_id returned the padded 11.          *)
C13_Witness ==
    /\ Allocated
    /\ prefix_arg = <<"d", "p">>
    /\ DOMAIN issues = {<<"d", "p", "-", "9">>, <<"d", "p", "-", "0", "1", "0">>}
    /\ new_id = <<"d", "p", "-", "0", "1", "1">>

---------------------------------------------------------------------------
(* Properties of readiness and of the depth leveling, checked under        *)
(* SpecGraph.                                                              *)

IsOpenIn(iss, k) == k \in DOMAIN iss /\ iss[k].status = "open"

(* C14: filter_ready returns exactly the open issues none of whose         *)
(* dependencies is the ID of an open issue: an open dependency blocks, a   *)
(* closed one and one that no issue has do not.                            *)
C14_ReadyIffNoOpenDependency ==
    ready.called =>
      /\ DOMAIN ready.issues =
           {k \in DOMAIN issues :
              /\ issues[k].status = "open"
              /\ \A d \in DepsOf(issues, k) : ~IsOpenIn(issues, d)}
      /\ \A k \in DOMAIN ready.issues : ready.issues[k] = issues[k]

C14_Witness ==
    /\ ready.called
    /\ \E a, b, c \in DOMAIN issues :
         /\ IsOpenIn(issues, a) /\ IsOpenIn(issues, b) /\ ~IsOpenIn(issues, c)
         /\ DepsOf(issues, a) = {b}
         /\ DepsOf(issues, b) = {c, UnknownId}
         /\ DOMAIN ready.issues = {b}

by_depth(d) == {issue_id \in DOMAIN depths : depths[issue_id] = d}

MutuallyDependent(x, y) ==
    /\ x \in DepsOf(display_issues, y)
    /\ y \in DepsOf(display_issues, x)

(* C15: whatever the dependencies of the displayed issues are, the         *)
(* leveling loop makes at most (number of displayed issues + 1) passes and *)
(* every displayed issue gets a depth; two displayed issues that depend on *)
(* each other are both in the last bucket.                                 *)
C15_LevelingTerminates ==
    /\ pc \in {"loop", "done"} =>
         /\ depth <= Cardinality(DOMAIN display_issues) + 1
         /\ pc = "loop" => ENABLED (LevelPass \/ HandleCycles)
    /\ pc = "done" =>
         /\ DOMAIN depths = DOMAIN display_issues
         /\ \A k \in DOMAIN depths : depths[k] \in 0..depth
         /\ \A x, y \in DOMAIN display_issues :
              MutuallyDependent(x, y) => x \in by_depth(depth) /\ y \in by_depth(depth)

C15_Witness ==
    /\ pc = "done"
    /\ \E x, y, z \in DOMAIN display_issues :
         /\ x # y
         /\ MutuallyDependent(x, y)
         /\ z \in DepsOf(display_issues, z)
         /\ by_depth(depth) = {x, y, z}
         /\ depth = 4

---------------------------------------------------------------------------
(* Properties of the write operations, checked under SpecWrite.  In a step *)
(* of an operation the unprimed  load_issues  is the state reconstructed   *)
(* from the logs as the operation found them.                              *)

Invoked(op) == calls' = calls + 1 /\ outcome'.op = op

Raised == outcome'.raised # ""

(* The step appends one line to file  f  and changes nothing else of the   *)
(* logs.                                                                   *)
AppendedTo(f) ==
    /\ f \in DOMAIN files'
    /\ Len(files'[f]) = Len(Get(files, f, <<>>)) + 1
    /\ files' = Put(files, f, Append(Get(files, f, <<>>), files'[f][Len(files'[f])]))

AppendsOneLine == \E f \in DOMAIN files' : AppendedTo(f)

AppendedLine ==
    LET f == CHOOSE g \in DOMAIN files' : AppendedTo(g)
    IN  files'[f][Len(files'[f])]

LastLine(f) == files[f][Len(files[f])]

(* C16: a write operation that raises leaves every log file as it was.     *)
C16_RejectedWriteLeavesLogs ==
    [][(calls' = calls + 1 /\ Raised) => files' = files]_vars

C16_Witness ==
    /\ calls = 1
    /\ outcome.op \in {"add_dependency", "remove_dependency"}
    /\ outcome.raised = "is already closed"
    /\ outcome.dep_ids = <<"dp-002">>
    /\ Len(files[get_user_events_file("dp")]) = 3

(* C17: close_issue raises exactly when the ID is not in the reconstructed *)
(* state or the issue is closed there; otherwise it appends one  closed    *)
(* event with that ID and the reason given.                                *)
C17_CloseIssueValidation ==
    [][Invoked("close_issue") =>
         \A iss \in {load_issues} :
           LET issue_id == outcome'.issue_id IN
           /\ Raised <=> (issue_id \notin DOMAIN iss \/ iss[issue_id].status = "closed")
           /\ ~Raised => /\ AppendsOneLine
                         /\ AppendedLine.type = "closed"
                         /\ AppendedLine.id = issue_id
                         /\ AppendedLine.reason = outcome'.reason]_vars

C17_Witness ==
    /\ calls = 1
    /\ outcome.op = "close_issue" /\ outcome.raised = ""
    /\ outcome.issue_id = "dp-001" /\ outcome.reason = "duplicate"
    /\ user = "jb"
    /\ LastLine(get_user_events_file("jb")).type = "closed"
    /\ LastLine(get_user_events_file("jb")).id = "dp-001"

(* C18: add_dependency raises when the issue is missing or closed, when a  *)
(* requested ID is missing, or when every requested ID is a dependency     *)
(* already; otherwise it appends one  updated  event.                      *)
C18_AddDependencyValidation ==
    [][Invoked("add_dependency") =>
         \A iss \in {load_issues} :
           LET issue_id == outcome'.issue_id
               requested == SetOf(outcome'.dep_ids)
           IN
           /\ Raised <=> \/ issue_id \notin DOMAIN iss
                         \/ iss[issue_id].status = "closed"
                         \/ \E d \in requested : d \notin DOMAIN iss
                         \/ requested \subseteq DepsOf(iss, issue_id)
           /\ ~Raised => /\ AppendsOneLine
                         /\ AppendedLine.type = "updated"
                         /\ AppendedLine.id = issue_id]_vars

C18_Witness ==
    /\ calls = 1
    /\ outcome.op = "add_dependency" /\ outcome.raised = ""
    /\ outcome.issue_id = "dp-001"
    /\ outcome.dep_ids = <<"dp-002", "jb-001">>
    /\ outcome.returned = <<"jb-001">>
    /\ LastLine(get_user_events_file(user)).type = "updated"

(* C19: remove_dependency raises when the issue is missing or closed or    *)
(* when no requested ID is a dependency; otherwise the appended  updated   *)
(* event carries the current dependencies without the requested ones and   *)
(* the operation returns the requested IDs that were dependencies.         *)
C19_RemoveDependencyValidation ==
    [][Invoked("remove_dependency") =>
         \A iss \in {load_issues} :
           LET issue_id == outcome'.issue_id
               requested == SetOf(outcome'.dep_ids)
           IN
           /\ Raised <=> \/ issue_id \notin DOMAIN iss
                         \/ iss[issue_id].status = "closed"
                         \/ requested \cap DepsOf(iss, issue_id) = {}
           /\ ~Raised =>
                /\ AppendsOneLine
                /\ AppendedLine.type = "updated"
                /\ AppendedLine.id = issue_id
                /\ SetOf(AppendedLine.depends_on) = DepsOf(iss, issue_id) \ requested
                /\ SetOf(outcome'.returned) = requested \cap DepsOf(iss, issue_id)]_vars

C19_Witness ==
    /\ calls = 1
    /\ outcome.op = "remove_dependency" /\ outcome.raised = ""
    /\ outcome.issue_id = "dp-001"
    /\ outcome.dep_ids = <<"dp-002", UnknownId>>
    /\ outcome.returned = <<"dp-002">>
    /\ LastLine(get_user_events_file(user)).depends_on = <<"jb-001">>


---------------------------------------------------------------------------
(* Properties of append_event, checked under SpecAppend.                   *)

Written == SubSeq(content', Len(content) + 1, Len(content'))

OneLine(text) ==
    /\ Len(text) > 1
    /\ text[Len(text)] = NL
    /\ \A i \in 1..(Len(text) - 1) : text[i] # NL

(* C20: an append keeps the old text as the beginning of the new text; it  *)
(* writes a newline first exactly when the old text is not empty and does  *)
(* not end with one; what follows is the record on one line of its own,    *)
(* ended by a newline.                                                     *)
C20_AppendOnly ==
    [][/\ IsPrefixOf(content, content')
       /\ IF content # <<>> /\ content[Len(content)] # NL
          THEN Head(Written) = NL /\ OneLine(Tail(Written))
          ELSE OneLine(Written)]_vars

C20_Witness ==
    content = <<"a", NL, "{", Quote, Backslash, "n", Quote, "}", NL>>


(* C21: a write operation changes no file but the events file of the user  *)
(* who runs it, whoever created the issue it is about, and it only adds to *)
(* the end of that file.                                                   *)
C21_WritesOwnFileOnly ==
    [][calls' = calls + 1 =>
         /\ \A f \in (DOMAIN files \cup DOMAIN files') \ {get_user_events_file(user)} :
              f \in DOMAIN files /\ f \in DOMAIN files' /\ files'[f] = files[f]
         /\ IsPrefixOf(Get(files, get_user_events_file(user), <<>>),
                       Get(files', get_user_events_file(user), <<>>))]_vars

C21_Witness ==
    /\ calls = 1
    /\ user = "jb"
    /\ outcome.op = "add_dependency" /\ outcome.raised = ""
    /\ outcome.issue_id = "dp-001"
    /\ LEGACY_EVENTS_FILE \in DOMAIN files
    /\ LastLine(get_user_events_file("jb")).id = "dp-001"
    /\ Len(files[get_user_events_file("jb")]) = 2


---------------------------------------------------------------------------
(* Properties of reading the logs, checked under SpecRead.                 *)

Damaged == \E f \in DOMAIN files : \E i \in 1..Len(files[f]) : "invalid" \in DOMAIN files[f][i]

RecordLines ==
    {<<f, i>> \in (DOMAIN files) \X (1..MaxReadLines) :
       i <= Len(files[f]) /\ "type" \in DOMAIN files[f][i]}

ReadRaised == outcome # NoRecord /\ outcome.raised = "JSONDecodeError"

(* C22: with no line that is not JSON the read returns, whichever files    *)
(* are missing and wherever blank lines and lines of spaces are, and it    *)
(* returns the records only; with one such line in any file the read       *)
(* raises and nothing is returned, neither a list nor a dict.              *)
C22_ReadAllOrNothing ==
    /\ _load_all_events_raises <=> Damaged
    /\ Loaded => ~Damaged /\ Len(all_events) = Cardinality(RecordLines)
    /\ ReadRaised => Damaged /\ ~Loaded /\ all_events = <<>> /\ issues = EmptyIssues

C22_Witness ==
    /\ ReadRaised
    /\ LEGACY_EVENTS_FILE \notin DOMAIN files
    /\ \E f, g \in DOMAIN files :
         /\ f # g
         /\ files[f] = <<MkEvent(1, "created", "dp-001", [title |-> "A"])>>
         /\ files[g] = <<WhitespaceLine, InvalidLine>>


---------------------------------------------------------------------------
(* Properties of the diagrams, checked under SpecGraph.                    *)

DisplayedDeps(k) == DepsOf(display_issues, k) \cap DOMAIN display_issues

(* C23: the mermaid edges are the pairs (D, I) of displayed issues with D  *)
(* a dependency of I, so a dependency that is not displayed gives no edge; *)
(* and a displayed issue with no displayed dependency is at depth 0.       *)
C23_HiddenDependenciesLeftOut ==
    /\ mermaid.called =>
         /\ \A e \in mermaid.edges :
              e[1] \in DOMAIN display_issues /\ e[2] \in DOMAIN display_issues
         /\ \A i \in DOMAIN display_issues : \A d \in DisplayedDeps(i) :
              <<d, i>> \in mermaid.edges
    /\ pc = "done" =>
         \A k \in DOMAIN display_issues : DisplayedDeps(k) = {} => depths[k] = 0

C23_Witness ==
    /\ mermaid.called /\ pc = "done" /\ ~include_closed
    /\ \E k, c, i \in DOMAIN issues :
         /\ issues[c].status = "closed"
         /\ DepsOf(issues, k) = {c, UnknownId}
         /\ k \in DOMAIN depths /\ i \in DOMAIN depths
         /\ depths[k] = 0
         /\ k \in DepsOf(issues, i)
         /\ mermaid.edges = {<<k, i>>}
         /\ depths[i] = 1

(* C24: every displayed node has the colour of its class: a closed issue   *)
(* the closed colour, an open issue the blocked colour when one of its     *)
(* dependencies is an open issue and the ready colour otherwise.           *)
C24_StyledByReadiness ==
    mermaid.called =>
      /\ DOMAIN mermaid.styles = DOMAIN display_issues
      /\ \A k \in DOMAIN display_issues :
           mermaid.styles[k] =
             IF issues[k].status = "closed" THEN CLOSED_FILL
             ELSE IF \E d \in DepsOf(issues, k) : IsOpenIn(issues, d) THEN BLOCKED_FILL
             ELSE READY_FILL


---------------------------------------------------------------------------
(* Properties of the user prefix, checked under SpecPrefix.                *)

Resolved == outcome # NoRecord /\ outcome.op = "get_user_prefix"

Returned == Resolved /\ outcome.raised = ""

(* C25: a prefix get_user_prefix returns has 2 to 4 characters, each a     *)
(* lowercase ASCII letter or a digit, and parse_issue_id reads an ID made  *)
(* with it as an ID of that namespace.                                     *)
C25_PrefixWellFormed ==
    Returned =>
      /\ Len(outcome.prefix) \in 2..4
      /\ AllIn(outcome.prefix, LowerChars \cup DigitChars)
      /\ parse_issue_id(outcome.prefix \o <<"-", "0", "0", "1">>)
           = [format |-> "new", prefix |-> outcome.prefix, num |-> 1]

EnvSet == strip(config.SKILL_ISSUES_PREFIX) # <<>>

GitSet == config.git_prefix # None /\ config.git_prefix # <<>>

TwoWords == config.user_name # None /\ Len(split(config.user_name)) >= 2

WellFormed(value) ==
    /\ Len(strip(value)) \in 2..4
    /\ \A i \in 1..Len(strip(value)) : ~IsSpace(strip(value)[i])
    /\ isalnum(strip(value))

---------------------------------------------------------------------------
(* Properties of the session IDs, checked under SpecSession.               *)

IsSessionOf(id, p) ==
    /\ Len(id) > Len(p) + 2
    /\ SubSeq(id, 1, Len(p) + 2) = p \o <<"-", "s">>
    /\ AllIn(SubSeq(id, Len(p) + 3, Len(id)), DigitChars)

OwnSessionNumbers ==
    {IntOf(SubSeq(sessions[i].id, Len(prefix_arg) + 3, Len(sessions[i].id))) :
       i \in {j \in DOMAIN sessions : IsSessionOf(sessions[j].id, prefix_arg)}}

ForeignSession(i) == ~IsSessionOf(sessions[i].id, prefix_arg)

(* C27: next_session_id returns <prefix>-s<NNN> where NNN is 1 when the    *)
(* list has no session of the prefix and else the largest number of those  *)
(* sessions plus one, in three digits at least; the sessions of other      *)
(* prefixes, legacy sessions and other IDs in the list change nothing.     *)
C27_NextSessionId ==
    Allocated =>
      /\ new_id = prefix_arg \o <<"-", "s">>
                  \o Format03d(IF OwnSessionNumbers = {} THEN 1
                               ELSE 1 + CHOOSE n \in OwnSessionNumbers :
                                           \A o \in OwnSessionNumbers : o <= n)
      /\ new_id = next_session_id(SelectSeq(sessions,
                                            LAMBDA x : IsSessionOf(x.id, prefix_arg)),
                                  prefix_arg)

C27_Witness ==
    /\ Allocated
    /\ prefix_arg = <<"d", "p">>
    /\ Len(sessions) = 2
    /\ {sessions[i].id : i \in DOMAIN sessions}
         = {<<"d", "p", "-", "s", "0", "0", "5">>, <<"j", "b", "-", "s", "0", "4", "9">>}
    /\ new_id = <<"d", "p", "-", "s", "0", "0", "6">>


---------------------------------------------------------------------------
(* Re-reading the logs after a write, checked under SpecWrite.             *)

(* C28: the load_issues that follows a write operation that returned gives *)
(* the state reconstructed just before the write with the one appended     *)
(* event folded onto it; an issue that close_issue closed is closed in it. *)
(* This is to hold for every user, every listing order of the files and    *)
(* every reading of the clock, the second of the events already in other   *)
(* files included.  In a step of Reread that follows the write directly,   *)
(* issues  is still the state the operation reconstructed.                 *)
C28_RereadEqualsFold ==
    [][(loads' # loads /\ Len(all_events') = Len(all_events) + 1) =>
         /\ issues' = ApplyEvent(issues, LastLine(get_user_events_file(user)))
         /\ outcome.op = "close_issue" =>
              issues'[outcome.issue_id].status = "closed"]_vars

---------------------------------------------------------------------------
(* The write operations over a log that ends with a cut-off record,        *)
(* checked under SpecHeal.                                                 *)

(* C29: when the user's file ends with a partial record, the next write    *)
(* operation of the user succeeds whenever its arguments are valid for the *)
(* records that are whole, and its record becomes a line of its own behind *)
(* the partial one; create_issue, which has no invalid arguments, always   *)
(* succeeds.                                                               *)
C29_LogHealsAfterInterruptedWrite ==
    [][(calls' = calls + 1) =>
         /\ outcome'.raised # "JSONDecodeError"
         /\ Invoked("create_issue") =>
              /\ ~Raised
              /\ AppendedTo(get_user_events_file(user))
              /\ AppendedLine.type = "created"
              /\ files[get_user_events_file(user)][Len(files[get_user_events_file(user)])]
                   = InvalidLine]_vars


---------------------------------------------------------------------------
(* Concurrent create_issue of two prefixes, checked under SpecRace.        *)

BothReturned == \A p \in Prefixes : creating[p].pc = "returned"

(* The files, other than  f , that hold a  created  record of  id .        *)
DefinedOutside(f, id) ==
    {g \in DOMAIN files \ {f} :
       \E i \in 1..Len(files[g]) :
          Parses(files[g][i]) /\ files[g][i].type = "created" /\ files[g][i].id = id}

(* C30: whatever the interleaving of the two writers' reconstructions and  *)
(* appends, the two create_issue calls return different IDs, both issues   *)
(* are in the reconstruction of the logs and open once both have appended, *)
(* and the ID a writer has read for its  created  event is defined in no   *)
(* other file.                                                             *)
C30_ConcurrentCreatesDistinct ==
    /\ BothReturned =>
         /\ creating["dp"].returned # creating["jb"].returned
         /\ \A p \in Prefixes :
              /\ creating[p].returned \in DOMAIN load_issues
              /\ load_issues[creating[p].returned].status = "open"
    /\ \A p \in Prefixes :
         creating[p].pc # "start" =>
           DefinedOutside(get_user_events_file(p), creating[p].new_id) = {}

(* Both writers reconstructed before either appended.                      *)
C30_Witness ==
    /\ BothReturned
    /\ creating["dp"].returned = "dp-004"
    /\ creating["jb"].returned = "jb-002"
    /\ "dp-004" \notin DOMAIN issues
    /\ "jb-002" \notin DOMAIN issues
    /\ DefinedOutside(get_user_events_file("dp"), "dp-003") = {get_user_events_file("jb")}
    /\ LastLine(get_user_events_file("dp")).id = "dp-004"
    /\ LastLine(get_user_events_file("jb")).id = "jb-002"

---------------------------------------------------------------------------
(* Properties of the depths, checked under SpecGraph.                      *)

(* The displayed issues that  k  depends on through  n  or fewer further   *)
(* displayed dependencies.                                                 *)
RECURSIVE ReachFrom(_, _)
ReachFrom(S, n) ==
    IF n = 0 THEN S
    ELSE ReachFrom(S \cup UNION {DisplayedDeps(x) : x \in S}, n - 1)

Upstream(k) == ReachFrom(DisplayedDeps(k), Cardinality(DOMAIN display_issues))

OnCycle(k) == k \in Upstream(k)

Acyclic == \A k \in DOMAIN display_issues : ~OnCycle(k)

MaxDepth(S) == CHOOSE d \in {depths[x] : x \in S} : \A x \in S : depths[x] <= d

(* C31: when no displayed issue is on a cycle of displayed dependencies,   *)
(* the loop ends with nothing remaining and budget left, an issue is at    *)
(* depth 0 exactly when it has no displayed dependency, and every other    *)
(* issue is one deeper than the deepest of its displayed dependencies.     *)
C31_AcyclicDepths ==
    (pc = "done" /\ DOMAIN display_issues # {} /\ Acyclic) =>
      /\ remaining = {}
      /\ max_iterations > 0
      /\ DOMAIN depths = DOMAIN display_issues
      /\ \A k \in DOMAIN display_issues :
           /\ depths[k] = 0 <=> DisplayedDeps(k) = {}
           /\ DisplayedDeps(k) # {} => depths[k] = 1 + MaxDepth(DisplayedDeps(k))
           /\ \A d \in DisplayedDeps(k) : depths[d] < depths[k]

C31_Witness ==
    /\ pc = "done" /\ Acyclic
    /\ \E a, b, c \in DOMAIN display_issues :
         /\ DisplayedDeps(a) = {}
         /\ DisplayedDeps(b) = {a}
         /\ DisplayedDeps(c) = {a, b}
         /\ UnknownId \in DepsOf(display_issues, a)
         /\ depths[a] = 0 /\ depths[b] = 1 /\ depths[c] = 2

(* The issues of the final bucket: what the loop left unassigned.          *)
FinalBucket == IF pc = "done" THEN remaining ELSE {}

(* C32 as stated: the final bucket holds exactly the displayed issues that *)
(* are on a cycle, and its depth is greater than every other depth.        *)
C32_FinalBucketIsCycles ==
    (pc = "done" /\ DOMAIN display_issues # {}) =>
      /\ FinalBucket = {k \in DOMAIN display_issues : OnCycle(k)}
      /\ \A k \in FinalBucket : \A j \in DOMAIN display_issues \ FinalBucket :
           depths[j] < depths[k]

(* C32, amended: the final bucket holds exactly the displayed issues that  *)
(* are on a cycle or depend, directly or through other displayed issues,   *)
(* on an issue that is on one; every other displayed issue got its depth   *)
(* in a pass, and the depth of the final bucket is greater than those.     *)
C32_FinalBucketIsCyclesAndDependents ==
    (pc = "done" /\ DOMAIN display_issues # {}) =>
      /\ FinalBucket = {k \in DOMAIN display_issues :
                          OnCycle(k) \/ \E c \in Upstream(k) : OnCycle(c)}
      /\ \A k \in FinalBucket : depths[k] = depth
      /\ \A k \in FinalBucket : \A j \in DOMAIN display_issues \ FinalBucket :
           depths[j] < depths[k]

C32_Witness ==
    /\ pc = "done"
    /\ \E a, b, c \in DOMAIN display_issues :
         /\ DisplayedDeps(a) = {}
         /\ b \in DisplayedDeps(b)
         /\ DisplayedDeps(c) = {b}
         /\ FinalBucket = {b, c}
         /\ depths[a] = 0
         /\ depths[b] = depth /\ depths[c] = depth

---------------------------------------------------------------------------
(* Notes and update histories under replay, checked under SpecReplay.      *)

(* C33: the replay of one more event keeps every issue, and every issue's  *)
(* note list and update history before the event are prefixes of its note  *)
(* list and update history after it; so the lists after a prefix of a      *)
(* stream are prefixes of the lists after every longer prefix.             *)
C33_NotesAndUpdatesAppendOnly ==
    [][\A id \in DOMAIN issues :
         /\ id \in DOMAIN issues'
         /\ IsPrefixOf(issues[id].notes, issues'[id].notes)
         /\ IsPrefixOf(issues[id].updates, issues'[id].updates)]_vars

---------------------------------------------------------------------------
(* Readiness across close_issue, checked under SpecReread.  In a step of   *)
(* Reread that follows the operation directly,  issues  is the state the   *)
(* operation reconstructed and  issues'  the state the logs give after it. *)

ReadyIn(iss) == DOMAIN filter_ready(iss, iss)

(* C34: from the state before a close_issue(c) that returned to the state  *)
(* after it, every ready issue other than c stays ready, c is not ready,   *)
(* and every issue that becomes ready depended on c.                       *)
C34_ClosingOnlyUnblocks ==
    [][(/\ loads' # loads
        /\ Len(all_events') = Len(all_events) + 1
        /\ outcome.op = "close_issue") =>
         /\ ReadyIn(issues) \ {outcome.issue_id} \subseteq ReadyIn(issues')
         /\ outcome.issue_id \notin ReadyIn(issues')
         /\ \A k \in ReadyIn(issues') \ ReadyIn(issues) :
              outcome.issue_id \in DepsOf(issues, k)]_vars

---------------------------------------------------------------------------
(* The dependency graph the write operations build, checked under          *)
(* SpecWrite.                                                              *)

(* The issues that the issues of  S  depend on through  n  or fewer        *)
(* further dependencies.                                                   *)
RECURSIVE DependsOnFrom(_, _, _)
DependsOnFrom(iss, S, n) ==
    IF n = 0 THEN S
    ELSE DependsOnFrom(iss,
                       S \cup UNION {DepsOf(iss, x) : x \in S \cap DOMAIN iss},
                       n - 1)

DependsOnItself(iss, k) ==
    k \in DependsOnFrom(iss, DepsOf(iss, k), Cardinality(DOMAIN iss))

(* C35: in the state reconstructed from the logs the write operations have *)
(* produced, no issue depends on itself, directly or through other issues. *)
C35_NoDependencyCycle ==
    \A iss \in {load_issues} : \A k \in DOMAIN iss : ~DependsOnItself(iss, k)

---------------------------------------------------------------------------
(* add_dependency and the reconstruction that follows it, checked under    *)
(* SpecReread.                                                             *)

(* C36: after an add_dependency(issue, requested) that returned, the line  *)
(* it appended is an  updated  event of the issue whose dependencies are   *)
(* the current ones united with the requested ones, it returned the        *)
(* requested IDs that were no dependency yet, sorted, and in the next      *)
(* reconstruction the dependencies of the issue are that union.            *)
C36_AddDependencyUnion ==
    [][(/\ loads' # loads
        /\ Len(all_events') = Len(all_events) + 1
        /\ outcome.op = "add_dependency") =>
         LET current == DepsOf(issues, outcome.issue_id)
             requested == SetOf(outcome.dep_ids)
             line == LastLine(get_user_events_file(user))
         IN  /\ line.type = "updated" /\ line.id = outcome.issue_id
             /\ SetOf(line.depends_on) = current \cup requested
             /\ SetOf(outcome.returned) = requested \ current
             /\ outcome.returned = sorted(requested \ current)
             /\ DepsOf(issues', outcome.issue_id) = current \cup requested]_vars

---------------------------------------------------------------------------
(* Properties of the decision records, checked under SpecAdr.              *)

Numbered(listing) == {f \in DOMAIN listing : NumberMatch(f)}

LargestNumber(listing) ==
    IF Numbered(listing) = {} THEN 0
    ELSE CHOOSE n \in {NumberOf(f) : f \in Numbered(listing)} :
           \A f \in Numbered(listing) : NumberOf(f) <= n

(* C37: an accept_draft that fails leaves the directory as it was; one     *)
(* that succeeds removes one file of status Draft and adds one numbered    *)
(* file of status Accepted, whose number is one more than the largest      *)
(* number in the directory before and so greater than the number of every  *)
(* record accepted earlier, and changes no other file.                     *)
C37_AcceptNumbersIncrease ==
    [][(adr'.calls = adr.calls + 1 /\ adr'.op = "accept_draft") =>
         /\ adr'.returned # 0 => decisions' = decisions
         /\ adr'.returned = 0 =>
              \E draft \in DOMAIN decisions.files, new \in DOMAIN decisions'.files :
                 /\ decisions.files[draft].status = "Draft"
                 /\ new \notin DOMAIN decisions.files
                 /\ DOMAIN decisions'.files = (DOMAIN decisions.files \ {draft}) \cup {new}
                 /\ \A f \in DOMAIN decisions.files \ {draft} :
                      decisions'.files[f] = decisions.files[f]
                 /\ NumberMatch(new)
                 /\ NumberOf(new) = 1 + LargestNumber(decisions.files)
                 /\ decisions'.files[new].status = "Accepted"
                 /\ \A i \in DOMAIN adr.accepted : NumberOf(adr.accepted[i]) < NumberOf(new)
                 /\ \A f \in Numbered(decisions.files) : NumberOf(f) # NumberOf(new)]_vars

C37_Witness ==
    /\ adr.calls = 4
    /\ adr.op = "accept_draft" /\ adr.returned = 0
    /\ adr.accepted = <<NumberedName(<<"0", "0", "8">>, <<"a">>), NumberedName(<<"0", "0", "9">>, <<"1">>)>>
    /\ DOMAIN decisions.files
         = {NumberedName(<<"0", "0", "7">>, <<"b">>), NumberedName(<<"0", "0", "8">>, <<"a">>), NumberedName(<<"0", "0", "9">>, <<"1">>)}


---------------------------------------------------------------------------
(* The migration to prefixed IDs.                                          *)

MigratedNotWritten ==
    migrator # <<>> /\ migrator.pc \in {"events migrated", "sessions migrated", "finalized"}

(* C38: after migrate_events, every dependency reference of every event,   *)
(* under depends_on or under the legacy blocked_by, that pointed to a      *)
(* migrated old-format issue ID holds that issue's new prefixed ID.        *)
C38_DependenciesRenamed ==
    MigratedNotWritten =>
      \A i \in DOMAIN project.events :
        \A f \in {"depends_on", "blocked_by"} \cap DOMAIN project.events[i] :
          \A j \in DOMAIN project.events[i][f] :
            project.events[i][f][j] \in DOMAIN migrator.issue_id_map =>
              migrator.events[i][f][j] = migrator.issue_id_map[project.events[i][f][j]]

(* C39: in the lists run has migrated, every session reference of an issue *)
(* event that pointed to an old-format session ID equals the new ID given  *)
(* to that session record.                                                 *)
C39_SessionReferencesFollow ==
    (migrator # <<>> /\ migrator.pc = "finalized") =>
      \A i \in DOMAIN project.events :
        ("session" \in DOMAIN project.events[i]
           /\ is_old_session_id(project.events[i].session)) =>
          \A j \in DOMAIN project.sessions :
            project.sessions[j].id = project.events[i].session =>
              migrator.events[i].session = migrator.sessions[j].id

(* C40: after finalize_sessions no issues_worked entry contains the        *)
(* __PENDING__ placeholder: each is the mapped new ID or the original ID.  *)
C40_NoPendingPlaceholder ==
    (migrator # <<>> /\ migrator.pc = "finalized") =>
      \A i \in DOMAIN migrator.sessions :
        "issues_worked" \in DOMAIN migrator.sessions[i] =>
          \A j \in DOMAIN migrator.sessions[i].issues_worked :
            LET now == migrator.sessions[i].issues_worked[j]
                was == project.sessions[i].issues_worked[j]
            IN  /\ Remove(now, PENDING) = now
                /\ now \in {was, Get(migrator.issue_id_map, was, was)}

====
